---- MODULE Spec2Model ----
(***************************************************************************)
(* Request translation and response normalisation layer of the SendGrid    *)
(* MCP server: the HTTP request executor (SendGridClientImpl.request), the *)
(* client operations built on it, and the tool handlers that wrap their    *)
(* results into response envelopes.                                        *)
(*                                                                         *)
(* One invocation is in flight at a time.  It starts in Start, suspends on *)
(* `await fetch(...)`, resumes when the response head arrives, suspends    *)
(* again on `await response.text()` when the executor reads the body, and  *)
(* settles with the value the caller receives.  The Worker's fetch handler *)
(* is modelled apart, in slots: several requests served at the same time,  *)
(* each with the credentials of its own headers.                           *)
(***************************************************************************)
EXTENDS Integers, Sequences, FiniteSets, TLC

VARIABLES
    pc,        \* "idle" | "fetching" | "reading" | "settled"
    call,      \* the invocation in flight: layer, name, args, credentials
    outbound,  \* the HTTP requests this invocation has handed to fetch
    resp,      \* what has arrived of the upstream response
    execOut,   \* how SendGridClientImpl.request ended
    opOut,     \* how the client operation ended
    envelope,  \* the ToolResponse of a tool invocation
    slots      \* the Worker's requests in flight, one record per request

vars == <<pc, call, outbound, resp, execOut, opOut, envelope, slots>>

(***************************************************************************)
(* Bounds of the model.                                                    *)
(***************************************************************************)
MaxItems == 2       \* longest array the upstream returns
MaxHeaderLen == 2   \* longest Retry-After header text, in characters
MaxErrors == 2      \* longest `errors` array of an error body
MaxRequests == 2    \* requests the Worker serves at the same time

(***************************************************************************)
(* JavaScript values.  Every value carries its type in t, so that the      *)
(* language's own rules (truthiness, property access on a value of any     *)
(* type, ===) can be written once and used as the source uses them.        *)
(***************************************************************************)
Undefined == [t |-> "undefined"]
Null == [t |-> "null"]
NaN == [t |-> "nan"]
Bool(b) == [t |-> "boolean", b |-> b]
Num(n) == [t |-> "number", n |-> n]
Str(s) == [t |-> "string", s |-> s]
Chars(cs) == [t |-> "chars", cs |-> cs]    \* a string kept character by character
Arr(es) == [t |-> "array", elems |-> es]
Obj(f) == [t |-> "object", f |-> f]        \* f: property name -> value
NoFields == [k \in {} |-> Undefined]

Nullish(v) == v.t \in {"undefined", "null"}
IsArray(v) == v.t = "array"

Truthy(v) ==
    CASE v.t = "undefined" -> FALSE
      [] v.t = "null" -> FALSE
      [] v.t = "nan" -> FALSE
      [] v.t = "boolean" -> v.b
      [] v.t = "number" -> v.n # 0
      [] v.t = "string" -> v.s # ""
      [] v.t = "chars" -> v.cs # <<>>
      [] OTHER -> TRUE

\* v.k for a v that is neither undefined nor null (those throw a TypeError,
\* which every user of Get decides before it reads).
Get(v, k) ==
    CASE v.t = "object" -> IF k \in DOMAIN v.f THEN v.f[k] ELSE Undefined
      [] v.t = "array" -> IF k = "length" THEN Num(Len(v.elems)) ELSE Undefined
      [] OTHER -> Undefined

OptGet(v, k) == IF Nullish(v) THEN Undefined ELSE Get(v, k)   \* v?.k
Or(a, b) == IF Truthy(a) THEN a ELSE b                        \* a || b
StrictEq(a, b) == a.t # "nan" /\ a = b                        \* a === b

Return(v) == [ok |-> TRUE, value |-> v]
Throw(e) == [ok |-> FALSE, error |-> e]
None == [ok |-> FALSE, error |-> Undefined]    \* nothing has ended yet
Ended(o) == o # None

(***************************************************************************)
(* Errors.  utils/errors.ts holds the three classified errors; the client  *)
(* constructs them as below.  TypeError and SyntaxError are the language's *)
(* own, raised by a property read of undefined/null and by JSON.parse.     *)
(***************************************************************************)
AuthenticationError(message) ==
    [t |-> "error", cls |-> "AuthenticationError", message |-> message,
     retryable |-> FALSE]
RateLimitError(message, retryAfterSeconds) ==
    [t |-> "error", cls |-> "RateLimitError", message |-> message,
     retryable |-> TRUE, retryAfter |-> retryAfterSeconds]
SendGridApiError(message, statusCode) ==
    [t |-> "error", cls |-> "SendGridApiError", message |-> message,
     retryable |-> FALSE, statusCode |-> statusCode]
TypeError == [t |-> "error", cls |-> "TypeError",
              message |-> Str("Cannot read properties of undefined"),
              retryable |-> FALSE]
SyntaxError == [t |-> "error", cls |-> "SyntaxError",
                message |-> Str("Unexpected token in JSON"),
                retryable |-> FALSE]
NetworkError == [t |-> "error", cls |-> "TypeError",
                 message |-> Str("fetch failed"), retryable |-> FALSE]
ClassifiedErrors == {"AuthenticationError", "RateLimitError", "SendGridApiError"}

(***************************************************************************)
(* Text of a response body.  A text is empty, or the serialisation of a    *)
(* JSON document, or something that is no JSON at all (an HTML error page  *)
(* of a proxy).  JSON.parse gives the document back, or throws.            *)
(***************************************************************************)
EmptyText == [kind |-> "empty"]
InvalidText == [kind |-> "invalid"]
JsonText(doc) == [kind |-> "json", doc |-> doc]
TextIsEmpty(text) == text.kind = "empty"      \* !text

JSONparse(text) ==
    IF text.kind = "json" THEN Return(text.doc) ELSE Throw(SyntaxError)

(***************************************************************************)
(* parseInt(string, 10): leading white space is skipped, one sign is       *)
(* read, then the longest run of decimal digits; no digit gives NaN.       *)
(***************************************************************************)
Digits == <<"0", "1", "2", "3", "4", "5", "6", "7", "8", "9">>
IsDigit(c) == \E i \in 1..10 : Digits[i] = c
DigitValue(c) == (CHOOSE i \in 1..10 : Digits[i] = c) - 1

RECURSIVE SkipWhiteSpace(_)
SkipWhiteSpace(cs) ==
    IF cs # <<>> /\ Head(cs) = " " THEN SkipWhiteSpace(Tail(cs)) ELSE cs

RECURSIVE DigitRun(_)
DigitRun(cs) ==
    IF cs # <<>> /\ IsDigit(Head(cs)) THEN <<Head(cs)>> \o DigitRun(Tail(cs))
    ELSE <<>>

RECURSIVE DecimalValue(_)
DecimalValue(ds) ==
    IF ds = <<>> THEN 0
    ELSE 10 * DecimalValue(SubSeq(ds, 1, Len(ds) - 1)) + DigitValue(ds[Len(ds)])

parseInt(string) ==
    LET s == SkipWhiteSpace(string.cs)
        signed == s # <<>> /\ Head(s) \in {"-", "+"}
        run == DigitRun(IF signed THEN Tail(s) ELSE s)
    IN  IF run = <<>> THEN NaN
        ELSE IF signed /\ Head(s) = "-" THEN Num(0 - DecimalValue(run))
        ELSE Num(DecimalValue(run))

(***************************************************************************)
(* The HTTP request executor, SendGridClientImpl.request.                  *)
(***************************************************************************)
API_BASE_URL == "https://api.sendgrid.com/v3"

getAuthHeadersUndefinedOnly(credentials) ==
    IF credentials.apiKey.t = "undefined"
    THEN Throw(AuthenticationError(
             Str("No API key provided. Include X-SendGrid-API-Key header.")))
    ELSE Return([Authorization |-> "Bearer " \o credentials.apiKey.s,
                 ContentType |-> "application/json"])

getAuthHeadersFixedKey(credentials) ==
    IF ~Truthy(credentials.apiKey)
    THEN Throw(AuthenticationError(
             Str("No API key provided. Include X-SendGrid-API-Key header.")))
    ELSE Return([Authorization |-> "Bearer SG.a",
                 ContentType |-> "application/json"])

getAuthHeadersEchoesKey(credentials) ==
    IF ~Truthy(credentials.apiKey)
    THEN Throw(AuthenticationError(
             Str("No API key provided. Include X-SendGrid-API-Key header.")))
    ELSE Throw(AuthenticationError(Str("Rejected key " \o credentials.apiKey.s)))

getAuthHeaders(credentials) ==
    IF ~Truthy(credentials.apiKey)
    THEN Throw(AuthenticationError(
             Str("No API key provided. Include X-SendGrid-API-Key header.")))
    ELSE Return([Authorization |-> "Bearer " \o credentials.apiKey.s,
                 ContentType |-> "application/json"])

\* The arguments of the one fetch call of request(endpoint, options).
fetchArguments(endpoint, headers) ==
    [url |-> [base |-> API_BASE_URL, path |-> endpoint.path,
              query |-> endpoint.query],
     method |-> endpoint.method,
     body |-> endpoint.body,
     headers |-> headers]

\* fetch hands one request to the network; sent is what went before it.
fetchTwice(sent, arguments) == Append(Append(sent, arguments), arguments)
fetch(sent, arguments) == Append(sent, arguments)

ResponseOk(status) == 200 <= status /\ status <= 299      \* response.ok

isAuthFailureOnly401(status) == status = 401
isAuthFailure(status) == status = 401 \/ status = 403

isBodilessSuccess(status) == status = 204 \/ status = 202

\* What request does when the head of the response has arrived: it settles
\* from the status and the headers alone, or it awaits response.text().
request_onResponse(response) ==
    IF response.status = 429
    THEN LET retryAfter == response.retryAfter
         IN  [await |-> FALSE,
              out |-> Throw(RateLimitError(Str("Rate limit exceeded"),
                          IF Truthy(retryAfter) THEN parseInt(retryAfter)
                          ELSE Num(60)))]
    ELSE IF isAuthFailure(response.status)
    THEN [await |-> FALSE,
          out |-> Throw(AuthenticationError(
                      Str("Authentication failed. Check your API key.")))]
    ELSE IF ~ResponseOk(response.status) THEN [await |-> TRUE, out |-> None]
    ELSE IF isBodilessSuccess(response.status)
    THEN [await |-> FALSE, out |-> Return(Undefined)]
    ELSE [await |-> TRUE, out |-> None]

\* Array.prototype.join: undefined and null elements give the empty string.
JoinElement(v) ==
    CASE Nullish(v) -> ""
      [] v.t = "string" -> v.s
      [] OTHER -> "[object]"

RECURSIVE Join(_, _)
Join(values, separator) ==
    IF values = <<>> THEN ""
    ELSE IF Len(values) = 1 THEN JoinElement(values[1])
    ELSE JoinElement(Head(values)) \o separator \o Join(Tail(values), separator)

\* The message of the generic API error, from the text of the error body.
\* Anything thrown inside the try block (JSON.parse on a text that is no
\* JSON, a property read of null) leaves the default message in place.
errorMessageTopLevelFirst(status, errorBody) ==
    LET default == Str("API error: " \o ToString(status))
        parsed == JSONparse(errorBody)
        errorJson == parsed.value
        errors == Get(errorJson, "errors")
    IN  IF ~parsed.ok THEN default
        ELSE IF Nullish(errorJson) THEN default
        ELSE IF Truthy(Get(errorJson, "message")) THEN Get(errorJson, "message")
        ELSE IF Truthy(errors) /\ IsArray(errors)
        THEN IF \E i \in 1..Len(errors.elems) : Nullish(errors.elems[i])
             THEN default
             ELSE Str(Join([i \in 1..Len(errors.elems) |->
                               Get(errors.elems[i], "message")], ", "))
        ELSE default

errorMessage(status, errorBody) ==
    LET default == Str("API error: " \o ToString(status))
        parsed == JSONparse(errorBody)
        errorJson == parsed.value
        errors == Get(errorJson, "errors")
    IN  IF ~parsed.ok THEN default
        ELSE IF Nullish(errorJson) THEN default
        ELSE IF Truthy(errors) /\ IsArray(errors)
        THEN IF \E i \in 1..Len(errors.elems) : Nullish(errors.elems[i])
             THEN default
             ELSE Str(Join([i \in 1..Len(errors.elems) |->
                               Get(errors.elems[i], "message")], ", "))
        ELSE IF Truthy(Get(errorJson, "message")) THEN Get(errorJson, "message")
        ELSE default

\* What request does when response.text() has resolved.
request_onText(response, text) ==
    IF ~ResponseOk(response.status)
    THEN Throw(SendGridApiError(errorMessage(response.status, text),
                                Num(response.status)))
    ELSE IF TextIsEmpty(text) THEN Return(Undefined)
    ELSE JSONparse(text)

(***************************************************************************)
(* What the client operations use of the platform.                         *)
(***************************************************************************)
\* JSON.stringify: a property whose value is undefined is left out, an
\* undefined or NaN element of an array becomes null.
RECURSIVE Serializable(_)
Serializable(v) ==
    CASE v.t = "object" ->
           Obj([k \in {j \in DOMAIN v.f : v.f[j].t # "undefined"} |->
                   Serializable(v.f[k])])
      [] v.t = "array" ->
           Arr([i \in 1..Len(v.elems) |->
                   IF v.elems[i].t = "undefined" THEN Null
                   ELSE Serializable(v.elems[i])])
      [] v.t = "nan" -> Null
      [] OTHER -> v

JSONstringify(v) == IF v.t = "undefined" THEN Undefined ELSE JsonText(Serializable(v))

String(v) ==
    CASE v.t = "number" -> Str(ToString(v.n))
      [] v.t = "nan" -> Str("NaN")
      [] v.t = "undefined" -> Str("undefined")
      [] v.t = "null" -> Str("null")
      [] v.t = "boolean" -> Str(IF v.b THEN "true" ELSE "false")
      [] OTHER -> v

\* array[i], counted from 0.
At(v, i) ==
    IF v.t = "array" /\ i + 1 \in 1..Len(v.elems) THEN v.elems[i + 1] ELSE Undefined

\* URLSearchParams.toString(): the query string as a sequence of lexical
\* tokens.  A name, a value made of unreserved characters, "=" and "&" are
\* one token each; a value kept character by character has every reserved
\* character percent-encoded.
EncodeCharacter(c) ==
    CASE c = "&" -> "%26"
      [] c = "=" -> "%3D"
      [] c = "%" -> "%25"
      [] c = "+" -> "%2B"
      [] c = " " -> "+"
      [] OTHER -> c

EncodeValue(v) ==
    IF v.t = "chars" THEN [i \in 1..Len(v.cs) |-> EncodeCharacter(v.cs[i])]
    ELSE <<v.s>>

Entry(name, value) == [name |-> name, value |-> value]

RECURSIVE URLSearchParams_toString(_)
URLSearchParams_toString(entries) ==
    IF entries = <<>> THEN <<>>
    ELSE <<Head(entries).name, "=">> \o EncodeValue(Head(entries).value)
         \o (IF Tail(entries) = <<>> THEN <<>>
             ELSE <<"&">> \o URLSearchParams_toString(Tail(entries)))

Endpoint(method, path, entries, body) ==
    [method |-> method, path |-> path,
     query |-> URLSearchParams_toString(entries), body |-> body]

\* `if (x) queryParams.set(name, x)`
SetIf(v, name) == IF Truthy(v) THEN <<Entry(name, String(v))>> ELSE <<>>
\* a parameter with a default value
Default(v, d) == IF v.t = "undefined" THEN d ELSE v
\* array.join(',') as one query value
JoinValues(v) == Str(Join(v.elems, ","))

(***************************************************************************)
(* The client operations.  X_endpoint(a) is the request operation X hands  *)
(* to the executor for the arguments a; X_result(a, r) is what X gives its *)
(* caller once the executor has ended with r.  An operation that reads a   *)
(* property of the executor's result throws a TypeError when that result   *)
(* is undefined (a 202/204 or an empty body) or null.                      *)
(***************************************************************************)
Page(items, count, hasMore) ==
    ("items" :> items) @@ ("count" :> count) @@ ("hasMore" :> hasMore)

\* `return this.request(...)`
passThrough(r) == r

\* --- cursor lists ---------------------------------------------------------
cursorPage_hasMoreAlways(r) ==
    IF ~r.ok THEN r
    ELSE IF Nullish(r.value) THEN Throw(TypeError)
    ELSE LET result == r.value
             next == OptGet(Get(result, "_metadata"), "next")
         IN  Return(Obj(Page(Or(Get(result, "result"), Arr(<<>>)),
                             Or(OptGet(Get(result, "result"), "length"), Num(0)),
                             Bool(~Nullish(Get(result, "_metadata"))))
                        @@ ("nextPageToken" :> next)))

\* listTemplates and listDesigns build their page this way; listContacts adds
\* the total.
cursorPage(r) ==
    IF ~r.ok THEN r
    ELSE IF Nullish(r.value) THEN Throw(TypeError)
    ELSE LET result == r.value
             next == OptGet(Get(result, "_metadata"), "next")
         IN  Return(Obj(Page(Or(Get(result, "result"), Arr(<<>>)),
                             Or(OptGet(Get(result, "result"), "length"), Num(0)),
                             Bool(Truthy(next)))
                        @@ ("nextPageToken" :> next)))

listContacts_endpoint(a) ==
    Endpoint("GET", "/marketing/contacts",
             SetIf(OptGet(a.params, "pageToken"), "page_token"), Undefined)

listContacts_result(a, r) ==
    LET page == cursorPage(r)
    IN  IF ~page.ok THEN page
        ELSE Return(Obj(page.value.f
                        @@ ("total" :> Get(r.value, "contact_count"))))

listTemplates_endpoint(a) ==
    Endpoint("GET", "/templates",
             SetIf(a.generations, "generations")
             \o <<Entry("page_size", String(Default(a.pageSize, Num(50))))>>
             \o SetIf(a.pageToken, "page_token"),
             Undefined)

listDesigns_endpoint(a) ==
    Endpoint("GET", "/designs",
             <<Entry("page_size", String(Default(a.pageSize, Num(50))))>>
             \o SetIf(a.pageToken, "page_token"),
             Undefined)

\* --- lists without a cursor -----------------------------------------------
\* { items: result[key] || [], count: result[key]?.length || 0, hasMore: false }
keyedPage_countOffByOne(r, key) ==
    IF ~r.ok THEN r
    ELSE IF Nullish(r.value) THEN Throw(TypeError)
    ELSE Return(Obj(Page(Or(Get(r.value, key), Arr(<<>>)),
                         Or(OptGet(Get(r.value, key), "length"), Num(1)),
                         Bool(FALSE))))

keyedPage(r, key) ==
    IF ~r.ok THEN r
    ELSE IF Nullish(r.value) THEN Throw(TypeError)
    ELSE Return(Obj(Page(Or(Get(r.value, key), Arr(<<>>)),
                         Or(OptGet(Get(r.value, key), "length"), Num(0)),
                         Bool(FALSE))))

listContactLists_endpoint(a) == Endpoint("GET", "/marketing/lists", <<>>, Undefined)
listSegments_endpoint(a) ==
    Endpoint("GET", "/marketing/segments/2.0",
             IF Truthy(a.parentListIds)
             THEN <<Entry("parent_list_ids", JoinValues(a.parentListIds))>>
             ELSE <<>>,
             Undefined)
listSingleSends_endpoint(a) ==
    Endpoint("GET", "/marketing/singlesends", SetIf(a.status, "status"), Undefined)
listApiKeys_endpoint(a) == Endpoint("GET", "/api_keys", <<>>, Undefined)
searchContacts_endpoint(a) ==
    Endpoint("POST", "/marketing/contacts/search", <<>>,
             JSONstringify(Obj("query" :> a.query)))
searchContacts_result(a, r) ==
    LET page == keyedPage(r, "result")
    IN  IF ~page.ok THEN page
        ELSE Return(Obj(page.value.f
                        @@ ("total" :> Get(r.value, "contact_count"))))

listSenderIdentities_endpoint(a) == Endpoint("GET", "/senders", <<>>, Undefined)
listSenderIdentities_result(a, r) ==
    IF ~r.ok THEN r
    ELSE Return(Obj(Page(Or(r.value, Arr(<<>>)),
                         Or(OptGet(r.value, "length"), Num(0)),
                         Bool(FALSE))))

\* --- offset/limit suppression lists ----------------------------------------
offsetList_endpointOmitsDefaults(path, a) ==
    Endpoint("GET", path,
             SetIf(a.startTime, "start_time") \o SetIf(a.endTime, "end_time")
             \o SetIf(a.limit, "limit") \o SetIf(a.offset, "offset"),
             Undefined)

offsetList_endpoint(path, a) ==
    Endpoint("GET", path,
             SetIf(a.startTime, "start_time") \o SetIf(a.endTime, "end_time")
             \o <<Entry("limit", String(Default(a.limit, Num(500)))),
                  Entry("offset", String(Default(a.offset, Num(0))))>>,
             Undefined)

offsetList_resultNeverMore(a, r) ==
    IF ~r.ok THEN r
    ELSE Return(Obj(Page(Or(r.value, Arr(<<>>)),
                         Or(OptGet(r.value, "length"), Num(0)),
                         Bool(FALSE))))

offsetList_result(a, r) ==
    IF ~r.ok THEN r
    ELSE Return(Obj(Page(Or(r.value, Arr(<<>>)),
                         Or(OptGet(r.value, "length"), Num(0)),
                         Bool(StrictEq(OptGet(r.value, "length"),
                                       Default(a.limit, Num(500)))))))

\* --- operations that hand the executor's result on ------------------------
listUnsubscribeGroups_endpoint(a) == Endpoint("GET", "/asm/groups", <<>>, Undefined)
getContact_endpoint(a) ==
    Endpoint("GET", "/marketing/contacts/" \o a.id.s, <<>>, Undefined)
\* --- bulk deletes -----------------------------------------------------------
deleteContacts_endpoint(a) ==
    Endpoint("DELETE", "/marketing/contacts",
             IF Truthy(Default(a.deleteAllContacts, Bool(FALSE)))
             THEN <<Entry("delete_all_contacts", Str("true"))>>
             ELSE <<Entry("ids", JoinValues(a.ids))>>,
             Undefined)

deleteContacts_result(a, r) ==
    IF ~r.ok THEN r
    ELSE IF Nullish(r.value) THEN Throw(TypeError)
    ELSE Return(Obj("jobId" :> Get(r.value, "job_id")))

suppressionDelete_endpointWithEmails(path, a) ==
    Endpoint("DELETE", path, <<>>,
             IF Truthy(Default(a.deleteAll, Bool(FALSE)))
             THEN JSONstringify(Obj(("delete_all" :> Bool(TRUE))
                                    @@ ("emails" :> a.emails)))
             ELSE JSONstringify(Obj("emails" :> a.emails)))

suppressionDelete_endpoint(path, a) ==
    Endpoint("DELETE", path, <<>>,
             IF Truthy(Default(a.deleteAll, Bool(FALSE)))
             THEN JSONstringify(Obj("delete_all" :> Bool(TRUE)))
             ELSE JSONstringify(Obj("emails" :> a.emails)))

\* `await this.request(...)` in a function that returns nothing
suppressionDelete_result(a, r) == IF ~r.ok THEN r ELSE Return(Undefined)

\* --- template versions and email validation ----------------------------------
\* `input.active ? 1 : 0`
activeFlagAsGiven(active) == Bool(Truthy(active))
activeFlag(active) == IF Truthy(active) THEN Num(1) ELSE Num(0)

\* `if (x) body.k = x`
FieldIf(v, k) == IF Truthy(v) THEN k :> v ELSE NoFields

createTemplateVersion_endpoint(a) ==
    Endpoint("POST", "/templates/" \o a.templateId.s \o "/versions", <<>>,
             JSONstringify(Obj(
                 ("name" :> Get(a.input, "name"))
                 @@ ("subject" :> Get(a.input, "subject"))
                 @@ ("html_content" :> Get(a.input, "htmlContent"))
                 @@ ("plain_content" :> Get(a.input, "plainContent"))
                 @@ ("active" :> activeFlag(Get(a.input, "active")))
                 @@ ("editor" :> Get(a.input, "editor"))
                 @@ ("generate_plain_content" :> Get(a.input, "generatePlainContent"))
                 @@ ("test_data" :> Get(a.input, "testData")))))

updateTemplateVersion_endpoint(a) ==
    Endpoint("PATCH",
             "/templates/" \o a.templateId.s \o "/versions/" \o a.versionId.s, <<>>,
             JSONstringify(Obj(
                 FieldIf(Get(a.input, "name"), "name")
                 @@ FieldIf(Get(a.input, "subject"), "subject")
                 @@ FieldIf(Get(a.input, "htmlContent"), "html_content")
                 @@ FieldIf(Get(a.input, "plainContent"), "plain_content")
                 @@ (IF Get(a.input, "active") # Undefined
                     THEN "active" :> activeFlag(Get(a.input, "active")) ELSE NoFields)
                 @@ FieldIf(Get(a.input, "editor"), "editor")
                 @@ (IF Get(a.input, "generatePlainContent") # Undefined
                     THEN "generate_plain_content" :> Get(a.input, "generatePlainContent")
                     ELSE NoFields))))

\* --- operations that catch what the executor throws ------------------------
testConnection_endpoint(a) == Endpoint("GET", "/user/profile", <<>>, Undefined)
testConnection_result(a, r) ==
    IF r.ok
    THEN Return(Obj(("connected" :> Bool(TRUE))
                    @@ ("message" :> Str("Successfully connected to SendGrid API"))))
    ELSE Return(Obj(("connected" :> Bool(FALSE))
                    @@ ("message" :> r.error.message)))

getContactByEmail_endpoint(a) ==
    Endpoint("POST", "/marketing/contacts/search/emails", <<>>,
             JSONstringify(Obj("emails" :> Arr(<<a.email>>))))
getContactByEmail_resultPropagates(a, r) ==
    IF ~r.ok THEN r
    ELSE IF Nullish(r.value) THEN Throw(TypeError)
    ELSE Return(Or(OptGet(Get(r.value, "result"), a.email.s), Null))

getContactByEmail_result(a, r) ==
    IF ~r.ok THEN Return(Null)
    ELSE IF Nullish(r.value) THEN Return(Null)     \* the TypeError is caught too
    ELSE Return(Or(OptGet(Get(r.value, "result"), a.email.s), Null))

getGlobalSuppression_endpoint(a) ==
    Endpoint("GET", "/suppression/unsubscribes/" \o a.email.s, <<>>, Undefined)
getGlobalSuppression_result(a, r) ==
    IF ~r.ok THEN Return(Null)
    ELSE Return(Or(IF Nullish(r.value) THEN Undefined ELSE At(r.value, 0), Null))

validateBatchId_endpoint(a) ==
    Endpoint("GET", "/mail/batch/" \o a.batchId.s, <<>>, Undefined)
validateBatchId_result(a, r) ==
    IF r.ok THEN Return(Obj("valid" :> Bool(TRUE)))
    ELSE Return(Obj("valid" :> Bool(FALSE)))

\* --- the SendGridClient interface: operation name -> its two halves ---------
CursorLists == {"listContacts", "listTemplates", "listDesigns"}
PlainLists == {"listContactLists", "listSegments", "listSingleSends",
               "listSenderIdentities", "listApiKeys", "searchContacts"}
OffsetLists == {"listBounces", "listBlocks", "listSpamReports",
                "listInvalidEmails", "listGlobalSuppressions"}
SuppressionDeletes == {"deleteBounces", "deleteBlocks", "deleteSpamReports",
                       "deleteInvalidEmails"}
BulkDeletes == {"deleteContacts"} \cup SuppressionDeletes
Catching == {"testConnection", "getContactByEmail", "getGlobalSuppression",
             "validateBatchId"}
Operations == CursorLists \cup PlainLists \cup OffsetLists \cup BulkDeletes
              \cup Catching \cup {"listUnsubscribeGroups", "getContact"}
              \cup {"sendEmail", "createSegment", "createSingleSend"}
              \cup {"getContactCount", "createApiKey"}
              \cup {"createTemplateVersion", "updateTemplateVersion", "validateEmail"}
              \cup {"validateDomain", "validateBrandedLink"}

operationEndpoint(op, a) ==
    CASE op = "listContacts" -> listContacts_endpoint(a)
      [] op = "listTemplates" -> listTemplates_endpoint(a)
      [] op = "listDesigns" -> listDesigns_endpoint(a)
      [] op = "listContactLists" -> listContactLists_endpoint(a)
      [] op = "listSegments" -> listSegments_endpoint(a)
      [] op = "listSingleSends" -> listSingleSends_endpoint(a)
      [] op = "listSenderIdentities" -> listSenderIdentities_endpoint(a)
      [] op = "listApiKeys" -> listApiKeys_endpoint(a)
      [] op = "searchContacts" -> searchContacts_endpoint(a)
      [] op = "listBounces" -> offsetList_endpoint("/suppression/bounces", a)
      [] op = "listBlocks" -> offsetList_endpoint("/suppression/blocks", a)
      [] op = "listSpamReports" -> offsetList_endpoint("/suppression/spam_reports", a)
      [] op = "listInvalidEmails" -> offsetList_endpoint("/suppression/invalid_emails", a)
      [] op = "listGlobalSuppressions" -> offsetList_endpoint("/suppression/unsubscribes", a)
      [] op = "listUnsubscribeGroups" -> listUnsubscribeGroups_endpoint(a)
      [] op = "getContact" -> getContact_endpoint(a)
      [] op = "deleteContacts" -> deleteContacts_endpoint(a)
      [] op = "deleteBounces" -> suppressionDelete_endpoint("/suppression/bounces", a)
      [] op = "deleteBlocks" -> suppressionDelete_endpoint("/suppression/blocks", a)
      [] op = "deleteSpamReports" -> suppressionDelete_endpoint("/suppression/spam_reports", a)
      [] op = "deleteInvalidEmails" -> suppressionDelete_endpoint("/suppression/invalid_emails", a)
      [] op = "testConnection" -> testConnection_endpoint(a)
      [] op = "getContactByEmail" -> getContactByEmail_endpoint(a)
      [] op = "getGlobalSuppression" -> getGlobalSuppression_endpoint(a)
      [] op = "validateBatchId" -> validateBatchId_endpoint(a)
      [] op = "getContactCount" ->
             Endpoint("GET", "/marketing/contacts/count", <<>>, Undefined)
      [] op = "sendEmail" ->
             Endpoint("POST", "/mail/send", <<>>, JSONstringify(a.input))
      [] op = "createSegment" ->
             Endpoint("POST", "/marketing/segments/2.0", <<>>,
                 JSONstringify(Obj(("name" :> Get(a.input, "name"))
                     @@ ("query_dsl" :> Get(a.input, "queryDsl"))
                     @@ ("parent_list_ids" :> Get(a.input, "parentListIds")))))
      [] op = "createSingleSend" ->
             Endpoint("POST", "/marketing/singlesends", <<>>, JSONstringify(a.input))
      [] op = "createApiKey" ->
             Endpoint("POST", "/api_keys", <<>>, JSONstringify(a.input))
      [] op = "createTemplateVersion" -> createTemplateVersion_endpoint(a)
      [] op = "updateTemplateVersion" -> updateTemplateVersion_endpoint(a)
      [] op = "validateEmail" ->
             Endpoint("POST", "/validations/email", <<>>,
                 JSONstringify(Obj(("email" :> a.email) @@ FieldIf(a.source, "source"))))
      [] op = "validateDomain" ->
             Endpoint("POST", "/whitelabel/domains/" \o String(a.id).s \o "/validate",
                      <<>>, Undefined)
      [] op = "validateBrandedLink" ->
             Endpoint("POST", "/whitelabel/links/" \o String(a.id).s \o "/validate",
                      <<>>, Undefined)

operationResult(op, a, r) ==
    CASE op = "listContacts" -> listContacts_result(a, r)
      [] op = "listTemplates" -> cursorPage(r)
      [] op = "listDesigns" -> cursorPage(r)
      [] op = "listContactLists" -> keyedPage(r, "result")
      [] op = "listSegments" -> keyedPage(r, "results")
      [] op = "listSingleSends" -> keyedPage(r, "result")
      [] op = "listSenderIdentities" -> listSenderIdentities_result(a, r)
      [] op = "listApiKeys" -> keyedPage(r, "result")
      [] op = "searchContacts" -> searchContacts_result(a, r)
      [] op = "listBounces" -> offsetList_result(a, r)
      [] op = "listBlocks" -> offsetList_result(a, r)
      [] op = "listSpamReports" -> offsetList_result(a, r)
      [] op = "listInvalidEmails" -> offsetList_result(a, r)
      [] op = "listGlobalSuppressions" -> offsetList_result(a, r)
      [] op = "listUnsubscribeGroups" -> passThrough(r)
      [] op = "getContact" -> passThrough(r)
      [] op = "deleteContacts" -> deleteContacts_result(a, r)
      [] op = "deleteBounces" -> suppressionDelete_result(a, r)
      [] op = "deleteBlocks" -> suppressionDelete_result(a, r)
      [] op = "deleteSpamReports" -> suppressionDelete_result(a, r)
      [] op = "deleteInvalidEmails" -> suppressionDelete_result(a, r)
      [] op = "testConnection" -> testConnection_result(a, r)
      [] op = "getContactByEmail" -> getContactByEmail_result(a, r)
      [] op = "getGlobalSuppression" -> getGlobalSuppression_result(a, r)
      [] op = "validateBatchId" -> validateBatchId_result(a, r)
      [] op = "getContactCount" ->
             IF ~r.ok THEN r
             ELSE IF Nullish(r.value) THEN Throw(TypeError)
             ELSE Return(Obj(("contactCount" :> Get(r.value, "contact_count"))
                      @@ ("billableCount" :> Get(r.value, "billable_count"))))
      [] op = "sendEmail" ->       \* `return { messageId: undefined }`
             IF ~r.ok THEN r ELSE Return(Obj("messageId" :> Undefined))
      [] op = "createSegment" -> passThrough(r)
      [] op = "createSingleSend" -> passThrough(r)
      [] op = "createApiKey" -> passThrough(r)
      [] op \in {"createTemplateVersion", "updateTemplateVersion", "validateEmail"} ->
             passThrough(r)
      [] op \in {"validateDomain", "validateBrandedLink"} ->
             IF ~r.ok THEN r
             ELSE IF Nullish(r.value) THEN Throw(TypeError)
             ELSE Return(Obj(("valid" :> Get(r.value, "valid"))
                      @@ ("validationResults" :> Get(r.value, "validation_results"))))

(***************************************************************************)
(* The response envelope formatter (utils/formatters.ts).                  *)
(***************************************************************************)
TextContent(text) == <<[type |-> "text", text |-> text]>>

\* A table row is the sequence of its cells; `${x}` is String(x).
placeholder(v) == Or(v, Str("-"))      \* v || '-'

formatSegmentsTable(segments) ==
    [header |-> <<"ID", "Name", "Contact Count">>,
     rows |-> [i \in 1..Len(segments) |->
                 <<String(Get(segments[i], "id")).s,
                   String(Get(segments[i], "name")).s,
                   String(placeholder(Get(segments[i], "contactsCount"))).s>>]]

isPaginatedResponse(data) ==
    data.t = "object" /\ "items" \in DOMAIN data.f /\ IsArray(Get(data, "items"))

formatPaginatedAsMarkdown(data, entityType) ==
    [kind |-> "markdown",
     heading |-> [capitalize |-> entityType],
     total |-> Get(data, "total"),
     showing |-> String(Get(data, "count")).s,
     more |-> IF Truthy(Get(data, "hasMore")) /\ Truthy(Get(data, "nextPageToken"))
              THEN Get(data, "nextPageToken") ELSE Undefined,
     table |-> IF Len(Get(data, "items").elems) = 0
               THEN [header |-> <<"_No items found._">>, rows |-> <<>>]
               ELSE IF entityType = "segments"
               THEN formatSegmentsTable(Get(data, "items").elems)
               ELSE [header |-> <<entityType>>, rows |-> <<>>]]

\* The rendering of data as text, by entity type; only the table of
\* segments is rendered cell by cell.
formatAsMarkdown(data, entityType) ==
    IF isPaginatedResponse(data)
    THEN formatPaginatedAsMarkdown(data, entityType)
    ELSE [kind |-> "markdown", entityType |-> entityType, of |-> data]

formatResponse(data, format, entityType) ==
    IF format = "markdown"
    THEN [content |-> TextContent(formatAsMarkdown(data, entityType)),
          isError |-> Undefined]
    ELSE [content |-> TextContent(JSONstringify(data)), isError |-> Undefined]

\* error instanceof SendGridApiError: the classified errors.
isSendGridApiError(error) == error.cls \in ClassifiedErrors

\* utils/errors.ts: the details payload of an error envelope.
formatErrorForLogging(error) ==
    Obj(("name" :> Str(error.cls)) @@ ("message" :> error.message)
        @@ ("retryable" :> Bool(error.retryable)))

formatErrorRethrows(error) == [content |-> <<>>, isError |-> Undefined]

formatErrorAnnotatesClassified(error) ==
    LET message == "Error: " \o String(error.message).s
                   \o (IF isSendGridApiError(error) THEN " (retryable)" ELSE "")
    IN  [content |-> TextContent(JSONstringify(
                         Obj(("error" :> Str(message))
                             @@ ("details" :> formatErrorForLogging(error))))),
         isError |-> Bool(TRUE)]

formatError(error) ==
    LET errorInfo == formatErrorForLogging(error)
        message ==
            IF isSendGridApiError(error)
            THEN "Error: " \o String(error.message).s
                 \o (IF error.retryable THEN " (retryable)" ELSE "")
            ELSE "Error: " \o String(error.message).s
    IN  [content |-> TextContent(JSONstringify(
                         Obj(("error" :> Str(message))
                             @@ ("details" :> errorInfo)))),
         isError |-> Bool(TRUE)]

(***************************************************************************)
(* The tool handlers.  T_call(args) is what handler T does before it       *)
(* awaits the client: it returns an envelope at once (reject), or calls    *)
(* the operation op with the arguments a.  T_return(args, o) is what it    *)
(* returns once the operation has ended with o; every handler catches what *)
(* the client throws and returns formatError of it.                        *)
(***************************************************************************)
NoArguments == [none |-> Undefined]
Calls(op, a) == [reject |-> FALSE, op |-> op, a |-> a]
Rejects(message) ==
    [reject |-> TRUE,
     envelope |-> [content |-> TextContent(JSONstringify(Obj("error" :> Str(message)))),
                   isError |-> Bool(TRUE)]]
Succeeds(data) ==
    [content |-> TextContent(JSONstringify(data)), isError |-> Undefined]

sendgrid_list_contacts_call(args) ==
    Calls("listContacts", [params |-> Obj("pageToken" :> args.pageToken)])
sendgrid_list_contacts_return(args, o) ==
    IF o.ok THEN formatResponse(o.value, args.format, "contacts")
    ELSE formatError(o.error)

sendgrid_list_bounces_call(args) ==
    Calls("listBounces", [startTime |-> args.startTime, endTime |-> args.endTime,
                          limit |-> args.limit, offset |-> args.offset])
sendgrid_list_bounces_return(args, o) ==
    IF o.ok THEN formatResponse(o.value, args.format, "bounces")
    ELSE formatError(o.error)

sendgrid_list_unsubscribe_groups_call(args) == Calls("listUnsubscribeGroups", NoArguments)
sendgrid_list_unsubscribe_groups_return(args, o) ==
    IF ~o.ok THEN formatError(o.error)
    ELSE IF Nullish(o.value) THEN formatError(TypeError)     \* groups.length
    ELSE formatResponse(Obj(Page(o.value, Get(o.value, "length"), Bool(FALSE))),
                        args.format, "suppressionGroups")

\* `if (!ids && !deleteAll)`
lacksTargetNever(set, deleteAll) == FALSE
lacksTarget(set, deleteAll) == ~Truthy(set) /\ ~Truthy(deleteAll)

sendgrid_delete_contacts_call(args) ==
    IF lacksTarget(args.ids, args.deleteAll)
    THEN Rejects("Either ids or deleteAll must be provided")
    ELSE Calls("deleteContacts",
               [ids |-> Or(args.ids, Arr(<<>>)),
                deleteAllContacts |-> Or(args.deleteAll, Bool(FALSE))])
sendgrid_delete_contacts_return(args, o) ==
    IF ~o.ok THEN formatError(o.error)
    ELSE Succeeds(Obj(("success" :> Bool(TRUE))
             @@ ("message" :> Str(IF Truthy(args.deleteAll)
                                  THEN "All contacts queued for deletion"
                                  ELSE String(OptGet(args.ids, "length")).s
                                       \o " contact(s) queued for deletion"))
             @@ o.value.f))

suppressionDelete_call(op, message, args) ==
    IF lacksTarget(args.emails, args.deleteAll)
    THEN Rejects(message)
    ELSE Calls(op, [emails |-> Or(args.emails, Arr(<<>>)),
                    deleteAll |-> Or(args.deleteAll, Bool(FALSE))])
suppressionDelete_return(message, o) ==
    IF ~o.ok THEN formatError(o.error)
    ELSE Succeeds(Obj(("success" :> Bool(TRUE)) @@ ("message" :> Str(message))))

sendgrid_delete_bounces_call(args) ==
    suppressionDelete_call("deleteBounces",
                           "Either emails or deleteAll must be provided", args)
sendgrid_delete_bounces_return(args, o) ==
    suppressionDelete_return(IF Truthy(args.deleteAll) THEN "All bounces deleted"
                             ELSE String(OptGet(args.emails, "length")).s
                                  \o " bounce(s) deleted", o)

contentEntriesHtmlFirst(text, html) ==
    (IF Truthy(html)
     THEN <<Obj(("type" :> Str("text/html")) @@ ("value" :> html))>> ELSE <<>>)
    \o (IF Truthy(text)
        THEN <<Obj(("type" :> Str("text/plain")) @@ ("value" :> text))>> ELSE <<>>)

contentEntries(text, html) ==
    (IF Truthy(text)
     THEN <<Obj(("type" :> Str("text/plain")) @@ ("value" :> text))>> ELSE <<>>)
    \o (IF Truthy(html)
        THEN <<Obj(("type" :> Str("text/html")) @@ ("value" :> html))>> ELSE <<>>)

sendgrid_send_email_call(args) ==
    LET content == contentEntries(args.text, args.html)
        \* emails.map((email) => ({ email }))
        mapEmails(emails) ==
            Arr([i \in 1..Len(emails.elems) |-> Obj("email" :> emails.elems[i])])
        personalization ==
            Obj(("to" :> mapEmails(args.to))
                @@ (IF Truthy(args.cc) THEN "cc" :> mapEmails(args.cc) ELSE NoFields)
                @@ (IF Truthy(args.bcc) THEN "bcc" :> mapEmails(args.bcc) ELSE NoFields)
                @@ (IF Truthy(args.dynamicTemplateData)
                    THEN "dynamicTemplateData" :> args.dynamicTemplateData
                    ELSE NoFields))
    IN  Calls("sendEmail", [input |-> Obj(
            ("personalizations" :> Arr(<<personalization>>))
            @@ ("from" :> Obj(("email" :> args.from) @@ ("name" :> args.fromName)))
            @@ ("subject" :> args.subject)
            @@ ("content" :> IF Len(content) > 0 THEN Arr(content) ELSE Undefined)
            @@ ("templateId" :> args.templateId)
            @@ ("replyTo" :> IF Truthy(args.replyTo)
                             THEN Obj("email" :> args.replyTo) ELSE Undefined)
            @@ ("categories" :> args.categories)
            @@ ("sendAt" :> args.sendAt)
            @@ ("attachments" :>
                  IF Nullish(args.attachments) THEN Undefined
                  ELSE Arr([i \in 1..Len(args.attachments.elems) |->
                          Obj([k \in {"content", "filename", "type", "disposition"}
                                  |-> Get(args.attachments.elems[i], k)])])))])

BulkDeleteTools == {"sendgrid_delete_contacts", "sendgrid_delete_bounces",
                    "sendgrid_delete_blocks", "sendgrid_delete_spam_reports",
                    "sendgrid_delete_invalid_emails"}
ListTools == {"sendgrid_list_contacts", "sendgrid_list_bounces",
              "sendgrid_list_unsubscribe_groups"}
LookupTools == {"sendgrid_get_contact_by_email", "sendgrid_validate_batch_id"}
Tools == BulkDeleteTools \cup ListTools \cup LookupTools
         \cup {"sendgrid_send_email", "sendgrid_create_api_key",
               "sendgrid_test_connection"}
         \cup {"sendgrid_validate_domain", "sendgrid_validate_branded_link",
               "sendgrid_validate_email", "sendgrid_list_segments"}

toolCall(tool, args) ==
    CASE tool = "sendgrid_list_contacts" -> sendgrid_list_contacts_call(args)
      [] tool = "sendgrid_list_bounces" -> sendgrid_list_bounces_call(args)
      [] tool = "sendgrid_list_unsubscribe_groups" ->
             sendgrid_list_unsubscribe_groups_call(args)
      [] tool = "sendgrid_delete_contacts" -> sendgrid_delete_contacts_call(args)
      [] tool = "sendgrid_delete_bounces" -> sendgrid_delete_bounces_call(args)
      [] tool = "sendgrid_delete_blocks" -> suppressionDelete_call("deleteBlocks",
                                    "Either emails or deleteAll required", args)
      [] tool = "sendgrid_delete_spam_reports" -> suppressionDelete_call("deleteSpamReports",
                                    "Either emails or deleteAll required", args)
      [] tool = "sendgrid_delete_invalid_emails" ->
             suppressionDelete_call("deleteInvalidEmails",
                                    "Either emails or deleteAll required", args)
      [] tool = "sendgrid_get_contact_by_email" ->
             Calls("getContactByEmail", [email |-> args.email])
      [] tool = "sendgrid_validate_batch_id" ->
             Calls("validateBatchId", [batchId |-> args.batchId])
      [] tool = "sendgrid_send_email" -> sendgrid_send_email_call(args)
      [] tool = "sendgrid_test_connection" -> Calls("testConnection", NoArguments)
      [] tool = "sendgrid_list_segments" ->
             Calls("listSegments", [parentListIds |-> args.parentListIds])
      [] tool = "sendgrid_validate_domain" -> Calls("validateDomain", [id |-> args.id])
      [] tool = "sendgrid_validate_branded_link" ->
             Calls("validateBrandedLink", [id |-> args.id])
      [] tool = "sendgrid_validate_email" ->
             Calls("validateEmail", [email |-> args.email, source |-> args.source])
      [] tool = "sendgrid_create_api_key" ->
             Calls("createApiKey",
                   [input |-> Obj(("name" :> args.name) @@ ("scopes" :> args.scopes))])

toolReturn(tool, args, o) ==
    CASE tool = "sendgrid_list_contacts" -> sendgrid_list_contacts_return(args, o)
      [] tool = "sendgrid_list_bounces" -> sendgrid_list_bounces_return(args, o)
      [] tool = "sendgrid_list_unsubscribe_groups" ->
             sendgrid_list_unsubscribe_groups_return(args, o)
      [] tool = "sendgrid_delete_contacts" -> sendgrid_delete_contacts_return(args, o)
      [] tool = "sendgrid_delete_bounces" -> sendgrid_delete_bounces_return(args, o)
      [] tool = "sendgrid_delete_blocks" -> suppressionDelete_return("Blocks deleted", o)
      [] tool = "sendgrid_delete_spam_reports" ->
             suppressionDelete_return("Spam reports deleted", o)
      [] tool = "sendgrid_delete_invalid_emails" ->
             suppressionDelete_return("Invalid emails deleted", o)
      [] tool = "sendgrid_get_contact_by_email" ->
             IF ~o.ok THEN formatError(o.error)
             ELSE IF ~Truthy(o.value)
             THEN Succeeds(Obj(("found" :> Bool(FALSE))
                      @@ ("message" :> Str("No contact found with email "
                                           \o args.email.s))))
             ELSE Succeeds(Obj(("found" :> Bool(TRUE)) @@ ("contact" :> o.value)))
      [] tool = "sendgrid_validate_batch_id" ->
             IF ~o.ok THEN formatError(o.error)
             ELSE Succeeds(Obj(("success" :> Bool(TRUE))
                      @@ ("batchId" :> args.batchId) @@ o.value.f))
      [] tool = "sendgrid_send_email" ->
             IF ~o.ok THEN formatError(o.error)
             ELSE Succeeds(Obj(("success" :> Bool(TRUE))
                      @@ ("message" :> Str("Email accepted for delivery"))
                      @@ o.value.f))
      [] tool = "sendgrid_list_segments" ->
             IF o.ok THEN formatResponse(o.value, args.format, "segments")
             ELSE formatError(o.error)
      [] tool = "sendgrid_test_connection" ->
             IF ~o.ok
             THEN [content |-> TextContent([kind |-> "plain",
                       s |-> "Connection failed: " \o String(o.error.message).s]),
                   isError |-> Bool(TRUE)]
             ELSE Succeeds(o.value)
      [] tool \in {"sendgrid_validate_domain", "sendgrid_validate_branded_link"} ->
             IF ~o.ok THEN formatError(o.error)
             ELSE Succeeds(Obj(("success" :> Get(o.value, "valid"))
                      @@ ("message" :> Str(
                            IF Truthy(Get(o.value, "valid"))
                            THEN (IF tool = "sendgrid_validate_domain"
                                  THEN "Domain validated successfully!"
                                  ELSE "Branded link validated!")
                            ELSE (IF tool = "sendgrid_validate_domain"
                                  THEN "Domain validation failed. Check DNS records."
                                  ELSE "Validation failed. Check DNS records.")))
                      @@ o.value.f))
      [] tool = "sendgrid_validate_email" ->
             IF ~o.ok THEN formatError(o.error)
             ELSE IF Nullish(o.value) THEN formatError(TypeError)  \* result.verdict
             ELSE Succeeds(Obj(("email" :> args.email)
                      @@ ("verdict" :> Get(o.value, "verdict"))
                      @@ ("score" :> Get(o.value, "score"))
                      @@ ("suggestion" :> Get(o.value, "suggestion"))
                      @@ ("checks" :> Get(o.value, "checks"))
                      @@ ("details" :> Obj(("local" :> Get(o.value, "local"))
                                           @@ ("host" :> Get(o.value, "host"))))))
      [] tool = "sendgrid_create_api_key" ->
             IF ~o.ok THEN formatError(o.error)
             ELSE IF Nullish(o.value) THEN formatError(TypeError)  \* key.apiKeyId
             ELSE Succeeds(Obj(("success" :> Bool(TRUE))
                      @@ ("message" :> Str("API key created. SAVE THE KEY VALUE - it will not be shown again!"))
                      @@ ("apiKeyId" :> Get(o.value, "apiKeyId"))
                      @@ ("name" :> Get(o.value, "name"))
                      @@ ("apiKey" :> Get(o.value, "apiKey"))
                      @@ ("scopes" :> Get(o.value, "scopes"))))

(***************************************************************************)
(* The invocations and the upstream responses the model explores.          *)
(***************************************************************************)
MaxTokenLen == 1    \* longest page token a caller passes, in characters

SeqsUpTo(S, n) == UNION {[1..k -> S] : k \in 0..n}

\* TenantCredentials.apiKey is optional; the worker entry point only builds
\* a server for a request that carries the key.
ApiKey == Str("SG.key")
ApiKeys == {Undefined, Str(""), ApiKey}

\* Page tokens are opaque: any characters, reserved ones included.
PageTokens == {Undefined} \cup {Chars(cs) : cs \in SeqsUpTo({"a", "&"}, MaxTokenLen)}
Limits == {Undefined} \cup {Num(n) : n \in 1..MaxItems}
EmailLists == {Arr(<<>>), Arr(<<Str("a@x.io")>>),
               Arr(<<Str("a@x.io"), Str("b@x.io")>>)}
Flags == {Undefined, Bool(FALSE), Bool(TRUE)}

OperationArguments(op) ==
    CASE op = "listContacts" ->
           {[params |-> Undefined]}
           \cup {[params |-> Obj("pageToken" :> t)] : t \in PageTokens}
      [] op = "listTemplates" ->
           {[generations |-> g, pageSize |-> Undefined, pageToken |-> t] :
               g \in {Undefined, Str("dynamic")}, t \in PageTokens}
      [] op = "listDesigns" ->
           {[pageSize |-> Undefined, pageToken |-> t] : t \in PageTokens}
      [] op = "listSegments" ->
           {[parentListIds |-> l] : l \in {Undefined, Arr(<<Str("l1"), Str("l2")>>)}}
      [] op = "listSingleSends" ->
           {[status |-> st] : st \in {Undefined, Str("draft")}}
      [] op = "searchContacts" -> {[query |-> Str("email LIKE 'a%'")]}
      [] op \in OffsetLists ->
           {[startTime |-> Undefined, endTime |-> Undefined, limit |-> l,
             offset |-> o] : l \in Limits, o \in {Undefined, Num(MaxItems)}}
      [] op = "getContact" -> {[id |-> Str("c1")]}
      [] op = "deleteContacts" ->
           {[ids |-> l, deleteAllContacts |-> d] : l \in EmailLists, d \in Flags}
      [] op \in SuppressionDeletes ->
           {[emails |-> l, deleteAll |-> d] : l \in EmailLists, d \in Flags}
      [] op \in {"getContactByEmail", "getGlobalSuppression"} ->
           {[email |-> Str("a@x.io")]}
      [] op = "validateBatchId" -> {[batchId |-> Str("b1")]}
      [] op = "createSegment" ->
           {[input |-> Obj(("name" :> Str("vip"))
                           @@ ("queryDsl" :> Str("email LIKE 'a%'"))
                           @@ ("parentListIds" :> l))] :
               l \in {Undefined, Arr(<<Str("l1")>>)}}
      [] op = "createSingleSend" ->
           {[input |-> Obj(("name" :> Str("news")) @@ ("sendAt" :> t)
                           @@ ("emailConfig" :> c))] :
               t \in {Undefined, Str("now")},
               c \in {Undefined, Obj(("subject" :> Str("Hi"))
                                     @@ ("htmlContent" :> Str("<p>Body</p>")))}}
      [] op \in {"sendEmail", "createApiKey"} -> {}     \* called by their tools only
      [] op \in {"createTemplateVersion", "updateTemplateVersion"} ->
           {[templateId |-> Str("t1"), versionId |-> Str("v1"),
             input |-> Obj(("name" :> Str("first")) @@ ("subject" :> sj)
                           @@ ("htmlContent" :> Undefined)
                           @@ ("plainContent" :> Undefined)
                           @@ ("active" :> ac) @@ ("editor" :> Undefined)
                           @@ ("generatePlainContent" :> gp)
                           @@ ("testData" :> Undefined))] :
               sj \in {Undefined, Str("Hi")}, ac \in Flags, gp \in Flags}
      [] op = "validateEmail" ->
           {[email |-> Str("a@x.io"), source |-> src] :
               src \in {Undefined, Str("signup")}}
      [] op \in {"validateDomain", "validateBrandedLink"} -> {[id |-> Num(7)]}
      [] OTHER -> {NoArguments}

ToolArguments(tool) ==
    CASE tool = "sendgrid_list_contacts" ->
           {[format |-> "json", pageToken |-> t] : t \in PageTokens}
      [] tool = "sendgrid_list_bounces" ->
           {[format |-> "json", startTime |-> Undefined, endTime |-> Undefined,
             limit |-> l, offset |-> Num(0)] : l \in (Limits \ {Undefined}) \cup {Num(500)}}
      [] tool = "sendgrid_list_unsubscribe_groups" -> {[format |-> "json"]}
      [] tool = "sendgrid_get_contact_by_email" -> {[email |-> Str("a@x.io")]}
      [] tool = "sendgrid_validate_batch_id" -> {[batchId |-> Str("b1")]}
      [] tool = "sendgrid_test_connection" -> {NoArguments}
      [] tool = "sendgrid_list_segments" ->
           {[parentListIds |-> Undefined, format |-> f] : f \in {"json", "markdown"}}
      [] tool \in {"sendgrid_validate_domain", "sendgrid_validate_branded_link"} ->
           {[id |-> Num(7)]}
      [] tool = "sendgrid_validate_email" ->
           {[email |-> Str("a@x.io"), source |-> Undefined]}
      [] tool = "sendgrid_create_api_key" ->
           {[name |-> Str("ci"), scopes |-> sc] :
               sc \in {Undefined, Arr(<<Str("mail.send")>>)}}
      [] tool = "sendgrid_send_email" ->
           {[to |-> to, from |-> Str("b@x.io"), fromName |-> Undefined,
             subject |-> Str("Hi"), text |-> text, html |-> html,
             templateId |-> tpl[1], dynamicTemplateData |-> tpl[2],
             cc |-> cc, bcc |-> Undefined, replyTo |-> replyTo,
             categories |-> Undefined, sendAt |-> Undefined,
             attachments |-> Undefined] :
               to \in EmailLists \ {Arr(<<>>)},
               text \in {Undefined, Str(""), Str("Body")},
               html \in {Undefined, Str("<p>Body</p>")},
               tpl \in {<<Undefined, Undefined>>,
                        <<Str("d-1"), Obj("first" :> Str("Ann"))>>},
               cc \in {Undefined, Arr(<<Str("c@x.io")>>)},
               replyTo \in {Undefined, Str("r@x.io")}}
      [] tool = "sendgrid_delete_contacts" ->
           {[ids |-> l, deleteAll |-> d] : l \in {Undefined} \cup EmailLists, d \in Flags}
      [] OTHER ->
           {[emails |-> l, deleteAll |-> d] : l \in {Undefined} \cup EmailLists, d \in Flags}

ClientCalls ==
    UNION {{[layer |-> "client", name |-> op, args |-> a,
             credentials |-> [apiKey |-> k]] :
               a \in OperationArguments(op), k \in ApiKeys} : op \in Operations}
ToolCalls ==
    UNION {{[layer |-> "tool", name |-> tool, args |-> a,
             credentials |-> [apiKey |-> ApiKey]] :
               a \in ToolArguments(tool)} : tool \in Tools}
AllCalls == ClientCalls \cup ToolCalls
ExecCalls == {c \in ClientCalls : c.name = "getContact"}

Head_(status, retryAfter) == [status |-> status, retryAfter |-> retryAfter]

Statuses == {200, 202, 204, 401, 403, 404, 429, 500}
Heads == {Head_(s, h) : s \in Statuses, h \in {Null, Chars(<<"3">>)}}

ExecStatuses == {200, 201, 202, 204, 304, 400, 401, 403, 404, 429, 500, 503}
RetryAfterHeaders ==
    {Null} \cup {Chars(cs) : cs \in SeqsUpTo({"3", "s", "-"}, MaxHeaderLen)}
ExecHeads == {Head_(s, h) : s \in ExecStatuses, h \in RetryAfterHeaders}

\* Documents of the shape the endpoint of an operation answers with.
Item(i) == Obj(("id" :> Str("id" \o ToString(i))) @@ ("email" :> Str("a@x.io"))
              @@ ("first_name" :> Str("Ann")))
ItemArray(n) == Arr([i \in 1..n |-> Item(i)])
ItemArrays == {ItemArray(n) : n \in 0..MaxItems}
Metadata == {NoFields, "_metadata" :> Obj(NoFields),
             "_metadata" :> Obj("next" :> Str("")),
             "_metadata" :> Obj("next" :> Str("tok&2"))}
ItemsUnder(key) == {NoFields} \cup {key :> items : items \in ItemArrays}

Documents(op) ==
    CASE op \in CursorLists ->
           {Obj(i @@ m @@ ("contact_count" :> Num(7))) :
               i \in ItemsUnder("result"), m \in Metadata}
      [] op = "listSegments" ->     \* segments, one of them (zero > 0) empty
           {Obj(NoFields)} \cup
           {Obj("results" :> Arr([i \in 1..n |->
                   Obj(("id" :> Str("id" \o ToString(i))) @@ ("name" :> Str("vip"))
                       @@ ("contactsCount" :> Num(IF i = zero THEN 0 ELSE 3)))])) :
               n \in 0..MaxItems, zero \in 0..MaxItems}
      [] op = "searchContacts" ->
           {Obj(i @@ ("contact_count" :> Num(7))) : i \in ItemsUnder("result")}
      [] op \in PlainLists \ {"listSenderIdentities"} ->
           {Obj(i) : i \in ItemsUnder("result")}
      [] op \in OffsetLists \cup {"listSenderIdentities", "listUnsubscribeGroups",
                                  "getGlobalSuppression"} -> ItemArrays
      [] op = "deleteContacts" -> {Obj(NoFields), Obj("job_id" :> Str("j1"))}
      [] op = "getContactCount" ->
           {Obj(("contact_count" :> Num(7)) @@ ("billable_count" :> Num(5)))}
      [] op = "createApiKey" ->
           {Obj(("api_key" :> Str("SG.secret")) @@ ("api_key_id" :> Str("k1"))
                @@ ("name" :> Str("ci")) @@ sc) :
               sc \in {NoFields, "scopes" :> Arr(<<Str("mail.send")>>)}}
      [] op = "createSegment" ->      \* the segment as created, upstream names
           {Obj(("name" :> Str("vip")) @@ ("query_dsl" :> Str("email LIKE 'a%'")) @@ l) :
               l \in {NoFields, "parent_list_ids" :> Arr(<<Str("l1")>>)}}
      [] op = "getContactByEmail" ->
           {Obj(NoFields), Obj("result" :> Obj("a@x.io" :> Item(1)))}
      [] op \in {"validateDomain", "validateBrandedLink"} ->
           {Obj(("valid" :> Bool(v))
                @@ ("validation_results" :>
                      Obj("mail_cname" :>
                            Obj(("valid" :> Bool(v))
                                @@ ("reason" :> (IF v THEN Null
                                                 ELSE Str("CNAME not found"))))))) :
               v \in BOOLEAN}
      [] op = "validateEmail" ->
           {Obj(("email" :> Str("a@x.io")) @@ ("verdict" :> Str(v))
                @@ ("score" :> Num(IF v = "Valid" THEN 1 ELSE 0))
                @@ ("local" :> Str("a")) @@ ("host" :> Str("x.io"))
                @@ ("checks" :> Obj("domain" :>
                        Obj("hasMxOrARecord" :> Bool(v = "Valid"))))) :
               v \in {"Valid", "Invalid"}}
      [] OTHER -> {Item(1)}

ErrorBody == Obj(("errors" :> Arr(<<Obj("message" :> Str("bad request"))>>)))

\* A success carries a document of its endpoint, a failure an error body;
\* either may come with no text, with a text that is no JSON, or with null.
Texts == [op \in Operations |-> [ok \in BOOLEAN |->
             {EmptyText, InvalidText, JsonText(Null)}
             \cup (IF ok THEN {JsonText(d) : d \in Documents(op)}
                   ELSE {JsonText(ErrorBody)})]]

ErrorElements == {Null, Obj(NoFields), Obj("message" :> Str("a")),
                  Obj("message" :> Str("b"))}
ErrorBodies ==
    {Obj(e @@ m) :
        e \in {NoFields, "errors" :> Str("x")}
              \cup {"errors" :> Arr(es) : es \in SeqsUpTo(ErrorElements, MaxErrors)},
        m \in {NoFields, "message" :> Str(""), "message" :> Str("m")}}

ExecTexts == [op \in Operations |-> [ok \in BOOLEAN |->
                 {EmptyText, InvalidText, JsonText(Null), JsonText(Item(1))}
                 \cup {JsonText(d) : d \in ErrorBodies}]]

(***************************************************************************)
(* The state machine.                                                      *)
(***************************************************************************)
NoCall == [layer |-> "none"]
NoResponse == [arrived |-> FALSE]
NoEnvelope == [content |-> <<>>, isError |-> Undefined]
Unread == [kind |-> "unread"]

(***************************************************************************)
(* The Worker (fetch handler).  Every POST /mcp parses its own credentials *)
(* from the request headers, validates them, and builds a server and a     *)
(* client of its own; requests are served concurrently, each suspended at  *)
(* its own `await fetch(...)`.                                             *)
(***************************************************************************)
\* headers.get('X-SendGrid-API-Key') || undefined; get gives null when absent
parseTenantCredentials(header) == [apiKey |-> Or(header, Undefined)]

validateCredentialsNever(credentials) == Return(Undefined)

validateCredentials(credentials) ==
    IF ~Truthy(credentials.apiKey)
    THEN Throw([t |-> "error", cls |-> "Error", retryable |-> FALSE,
                message |-> Str("Missing credentials. Provide X-SendGrid-API-Key header.")])
    ELSE Return(Undefined)

createSendGridClient(credentials) == [created |-> TRUE, credentials |-> credentials]

Requests == 1..MaxRequests
NoClient == [created |-> FALSE]
NoReply == [status |-> 0]
IdleSlot == [pc |-> "idle", route |-> "", header |-> Null, call |-> NoCall,
             client |-> NoClient, outbound |-> <<>>, upstream |-> NoResponse,
             reply |-> NoReply]

Unauthorized(message) ==
    [status |-> 401,
     body |-> JSONstringify(Obj(("error" :> Str("Unauthorized"))
                  @@ ("message" :> message)
                  @@ ("required_headers" :> Arr(<<Str("X-SendGrid-API-Key")>>))))]
ToolReply(toolResponse) == [status |-> 200, envelope |-> toolResponse]

\* The handler of the slot's tool resumes with the executor's outcome r.
Answer_(slot, upstream, r) ==
    LET tc == toolCall(slot.call.name, slot.call.args)
    IN  [slot EXCEPT !.pc = "answered", !.upstream = upstream,
                     !.reply = ToolReply(toolReturn(slot.call.name, slot.call.args,
                                             operationResult(tc.op, tc.a, r)))]

\* fetch(request, env, ctx) up to its first suspension.
workerFetch(route, header, c) ==
    LET arrived == [IdleSlot EXCEPT !.route = route, !.header = header]
        credentials == parseTenantCredentials(header)
        valid == validateCredentials(credentials)
        served == [arrived EXCEPT !.call = c,
                                  !.client = createSendGridClient(credentials)]
        tc == toolCall(c.name, c.args)
        headers == getAuthHeaders(served.client.credentials)
    IN  IF route = "/health"
        THEN [arrived EXCEPT !.pc = "answered",
                !.reply = [status |-> 200,
                           body |-> JSONstringify(Obj("status" :> Str("ok")))]]
        ELSE IF ~valid.ok
        THEN [arrived EXCEPT !.pc = "answered",
                             !.reply = Unauthorized(valid.error.message)]
        ELSE IF tc.reject
        THEN [served EXCEPT !.pc = "answered", !.reply = ToolReply(tc.envelope)]
        ELSE IF ~headers.ok
        THEN Answer_(served, NoResponse, headers)
        ELSE [served EXCEPT !.pc = "fetching",
                !.outbound = fetch(<<>>, fetchArguments(
                                 operationEndpoint(tc.op, tc.a), headers.value))]

Init ==
    /\ pc = "idle"
    /\ call = NoCall
    /\ outbound = <<>>
    /\ resp = NoResponse
    /\ execOut = None
    /\ opOut = None
    /\ envelope = NoEnvelope
    /\ slots = [i \in Requests |-> IdleSlot]

\* The client operation an invocation runs, and its arguments.
Operation(c) == IF c.layer = "tool" THEN toolCall(c.name, c.args).op ELSE c.name
Arguments(c) == IF c.layer = "tool" THEN toolCall(c.name, c.args).a ELSE c.args

\* The executor has ended with r: the operation resumes and ends, and the
\* tool handler, if there is one, resumes and returns its envelope.
Settle(c, r) ==
    LET o == operationResult(Operation(c), Arguments(c), r)
    IN  /\ pc' = "settled"
        /\ execOut' = r
        /\ opOut' = o
        /\ envelope' = IF c.layer = "tool" THEN toolReturn(c.name, c.args, o)
                       ELSE NoEnvelope

\* An invocation runs up to its first await: the handler validates, the
\* operation builds its request, the executor builds the headers and calls
\* fetch.
Start(calls) ==
    /\ pc = "idle"
    /\ \E c \in calls :
        /\ call' = c
        /\ resp' = NoResponse
        /\ IF c.layer = "tool" /\ toolCall(c.name, c.args).reject
           THEN /\ pc' = "settled"
                /\ envelope' = toolCall(c.name, c.args).envelope
                /\ UNCHANGED <<outbound, execOut, opOut>>
           ELSE LET headers == getAuthHeaders(c.credentials)
                IN  IF ~headers.ok
                    THEN /\ Settle(c, headers)
                         /\ UNCHANGED outbound
                    ELSE /\ pc' = "fetching"
                         /\ outbound' =
                              fetch(outbound,
                                    fetchArguments(
                                        operationEndpoint(Operation(c), Arguments(c)),
                                        headers.value))
                         /\ UNCHANGED <<execOut, opOut, envelope>>
    /\ UNCHANGED slots

\* `await fetch(...)` resolves with the head of a response.
HeadArrives(heads) ==
    /\ pc = "fetching"
    /\ \E h \in heads :
        LET response == [arrived |-> TRUE, status |-> h.status,
                         retryAfter |-> h.retryAfter, text |-> Unread]
            step == request_onResponse(response)
        IN  /\ resp' = response
            /\ IF step.await
               THEN /\ pc' = "reading"
                    /\ UNCHANGED <<execOut, opOut, envelope>>
               ELSE Settle(call, step.out)
    /\ UNCHANGED <<call, outbound, slots>>

\* `await response.text()` resolves with the text of the body.
TextArrives(texts) ==
    /\ pc = "reading"
    /\ \E text \in texts[Operation(call)][ResponseOk(resp.status)] :
        /\ resp' = [resp EXCEPT !.text = text]
        /\ Settle(call, request_onText(resp, text))
    /\ UNCHANGED <<call, outbound, slots>>

\* `await fetch(...)` rejects: the network failed.
FetchFails ==
    /\ pc = "fetching"
    /\ Settle(call, Throw(NetworkError))
    /\ UNCHANGED <<call, outbound, resp, slots>>

\* The caller has its answer; the next invocation starts from scratch.
Finish ==
    /\ pc = "settled"
    /\ pc' = "idle"
    /\ call' = NoCall
    /\ outbound' = <<>>
    /\ resp' = NoResponse
    /\ execOut' = None
    /\ opOut' = None
    /\ envelope' = NoEnvelope
    /\ UNCHANGED slots

Next ==
    \/ Start(AllCalls)
    \/ HeadArrives(Heads)
    \/ TextArrives(Texts)
    \/ FetchFails
    \/ Finish

Spec == Init /\ [][Next]_vars

\* The executor alone, under every response of ExecHeads and ExecTexts.
NextExec ==
    \/ Start(ExecCalls)
    \/ HeadArrives(ExecHeads)
    \/ TextArrives(ExecTexts)
    \/ FetchFails
    \/ Finish

SpecExec == Init /\ [][NextExec]_vars

\* Tool invocations alone; every upstream call eventually returns a
\* response or fails, and a body being read eventually arrives.
LiveTools == Tools \ {"sendgrid_delete_blocks", "sendgrid_delete_spam_reports",
                       "sendgrid_delete_invalid_emails"}
LiveCalls ==
    {c \in ToolCalls :
        /\ c.name \in LiveTools
        /\ c.name \in BulkDeleteTools => c.args.deleteAll = Undefined
        /\ c.name = "sendgrid_send_email" =>
              /\ c.args.cc = Undefined /\ c.args.replyTo = Undefined
              /\ c.args.templateId = Undefined /\ c.args.html = Undefined
              /\ Len(c.args.to.elems) = 1}
LiveHeads == {Head_(s, Null) : s \in {200, 204, 401, 429, 500}}

NextTools ==
    \/ Start(LiveCalls)
    \/ HeadArrives(LiveHeads)
    \/ TextArrives(Texts)
    \/ FetchFails
    \/ Finish

SpecTools ==
    /\ Init /\ [][NextTools]_vars
    /\ WF_vars(HeadArrives(LiveHeads) \/ FetchFails)
    /\ WF_vars(TextArrives(Texts))

\* --- the Worker: MaxRequests requests served at the same time ------------
WorkerHeaders == {Null, Str(""), Str("SG.a"), Str("SG.b")}
WorkerCalls ==
    {[name |-> "sendgrid_create_api_key", args |-> a] :
        a \in ToolArguments("sendgrid_create_api_key")}
    \cup {[name |-> "sendgrid_delete_bounces",
           args |-> [emails |-> Undefined, deleteAll |-> Undefined]]}
WorkerHeads == {Head_(s, Null) : s \in {200, 401, 429}}

single == <<pc, call, outbound, resp, execOut, opOut, envelope>>

\* A request arrives and runs up to its first suspension.
Receive(i) ==
    /\ slots[i].pc = "idle"
    /\ \E route \in {"/mcp", "/health"}, header \in WorkerHeaders, c \in WorkerCalls :
          slots' = [slots EXCEPT ![i] = workerFetch(route, header, c)]
    /\ UNCHANGED single

\* The upstream answers the request of slot i: the executor reads the
\* response, the operation and the handler resume and return.
Respond(i) ==
    /\ slots[i].pc = "fetching"
    /\ \E h \in WorkerHeads :
          LET response == [arrived |-> TRUE, status |-> h.status,
                           retryAfter |-> h.retryAfter, text |-> Unread]
              step == request_onResponse(response)
              op == toolCall(slots[i].call.name, slots[i].call.args).op
          IN  IF step.await
              THEN \E text \in Texts[op][ResponseOk(h.status)] :
                     slots' = [slots EXCEPT ![i] =
                                 Answer_(slots[i], [response EXCEPT !.text = text],
                                         request_onText(response, text))]
              ELSE slots' = [slots EXCEPT ![i] =
                               Answer_(slots[i], response, step.out)]
    /\ UNCHANGED single

\* The fetch of slot i rejects.
Fail(i) ==
    /\ slots[i].pc = "fetching"
    /\ slots' = [slots EXCEPT ![i] =
                   Answer_(slots[i], [arrived |-> FALSE, failed |-> TRUE],
                           Throw(NetworkError))]
    /\ UNCHANGED single

\* The reply of slot i has gone out; nothing of the request is kept.
Close(i) ==
    /\ slots[i].pc = "answered"
    /\ slots' = [slots EXCEPT ![i] = IdleSlot]
    /\ UNCHANGED single

NextWorker ==
    \E i \in Requests : Receive(i) \/ Respond(i) \/ Fail(i) \/ Close(i)

SpecWorker == Init /\ [][NextWorker]_vars

(***************************************************************************)
(* Properties.                                                             *)
(***************************************************************************)
\* The invocation has ended after its operation went to the executor.
Ran == pc = "settled" /\ Ended(execOut)
\* The invocation has ended on an upstream response.
Answered == pc = "settled" /\ resp.arrived
\* A direct client call on credentials without an API key.
NoKey == call.layer = "client" /\ ~Truthy(call.credentials.apiKey)
MissingKeyError ==
    AuthenticationError(Str("No API key provided. Include X-SendGrid-API-Key header."))

RECURSIVE NaturalNumeral(_)
NaturalNumeral(n) ==
    IF n < 10 THEN <<Digits[n + 1]>>
    ELSE NaturalNumeral(n \div 10) \o <<Digits[(n % 10) + 1]>>
Numeral(n) == IF n < 0 THEN <<"-">> \o NaturalNumeral(0 - n) ELSE NaturalNumeral(n)

\* C2 as stated: a 429 raises a RateLimitError whose retry-after is the
\* value of the Retry-After header when the header is present, and 60 when
\* it is absent.
C2_RetryAfterIsHeaderValue ==
    (Answered /\ resp.status = 429) =>
        /\ ~execOut.ok
        /\ execOut.error.cls = "RateLimitError"
        /\ IF resp.retryAfter = Null
           THEN execOut.error.retryAfter = Num(60)
           ELSE /\ execOut.error.retryAfter.t = "number"
                /\ Numeral(execOut.error.retryAfter.n) = resp.retryAfter.cs

\* C3: a 401 or a 403 raises an AuthenticationError with one fixed message,
\* and the executor ends without having read the body.
C3_AuthFailureIgnoresBody ==
    (Answered /\ resp.status \in {401, 403}) =>
        /\ execOut = Throw(AuthenticationError(
                               Str("Authentication failed. Check your API key.")))
        /\ resp.text = Unread

C3_Witness ==
    /\ Answered /\ resp.status = 403
    /\ ~execOut.ok /\ execOut.error.cls = "AuthenticationError"

\* The body of the response as the claims about its content see it.
BodyIsObject == resp.text.kind = "json" /\ resp.text.doc.t = "object"
BodyHas(k) == BodyIsObject /\ k \in DOMAIN resp.text.doc.f
BodyField(k) == resp.text.doc.f[k]
BodyHasErrorsArray == BodyHas("errors") /\ BodyField("errors").t = "array"
MessageOf(e) ==
    IF e.t = "object" /\ "message" \in DOMAIN e.f /\ e.f["message"].t = "string"
    THEN e.f["message"].s ELSE ""
RECURSIVE MessagesJoined(_)
MessagesJoined(es) ==
    IF es = <<>> THEN ""
    ELSE IF Len(es) = 1 THEN MessageOf(es[1])
    ELSE MessagesJoined(SubSeq(es, 1, Len(es) - 1)) \o ", " \o MessageOf(es[Len(es)])
Fallback == Str("API error: " \o ToString(resp.status))
GenericFailure ==
    Answered /\ ~ResponseOk(resp.status) /\ resp.status \notin {429, 401, 403}

C4_AmendedMessage ==
    IF BodyHasErrorsArray
    THEN IF \E i \in 1..Len(BodyField("errors").elems) :
                BodyField("errors").elems[i] = Null
         THEN Fallback
         ELSE Str(MessagesJoined(BodyField("errors").elems))
    ELSE IF BodyHas("message") /\ BodyField("message") # Str("")
    THEN BodyField("message")
    ELSE Fallback

\* C4 (amended): any other non-2xx response raises a generic API error
\* with the status; its message is the `.message` fields of the `errors`
\* array joined with ", " (an element without one contributes the empty
\* string) when the body is a JSON object with an `errors` array without a
\* null element; the fallback "API error: <status>" when that array has a
\* null element; otherwise the top-level `message` when it is a non-empty
\* string; and the fallback in every other case.
C4_GenericErrorMessage ==
    GenericFailure =>
        execOut = Throw(SendGridApiError(C4_AmendedMessage, Num(resp.status)))

C4_Witness ==
    /\ GenericFailure /\ resp.status = 400
    /\ BodyHasErrorsArray /\ BodyHas("message") /\ BodyField("message") = Str("m")
    /\ ~execOut.ok /\ execOut.error.message = Str("a, b")

C4_StatedMessage ==
    IF BodyHasErrorsArray THEN Str(MessagesJoined(BodyField("errors").elems))
    ELSE IF BodyHas("message") THEN BodyField("message")
    ELSE Fallback

\* C4 as stated: the joined messages whenever the body has an `errors`
\* array, otherwise the top-level `message` whenever present, otherwise
\* the fallback.
C4_AsStated ==
    GenericFailure =>
        execOut = Throw(SendGridApiError(C4_StatedMessage, Num(resp.status)))

\* C5 as stated: a 2xx response gives undefined exactly when the status
\* is 202 or 204 (the body is not read) or the text is empty, and the body
\* parsed as JSON in every other case.
C5_SuccessBody ==
    (Answered /\ ResponseOk(resp.status)) =>
        IF resp.status \in {202, 204}
        THEN execOut = Return(Undefined) /\ resp.text = Unread
        ELSE IF resp.text = EmptyText THEN execOut = Return(Undefined)
        ELSE /\ execOut.ok
             /\ execOut.value # Undefined
             /\ resp.text = JsonText(execOut.value)

\* C6: an invocation hands at most one request to fetch: exactly one once
\* the credential check has passed, whatever the upstream answers and also
\* when the executor has ended with an error, and none before.
C6_NeverRetries ==
    /\ Len(outbound) <= 1
    /\ pc \in {"fetching", "reading"} => Len(outbound) = 1
    /\ (pc = "settled" /\ (resp.arrived \/ execOut = Throw(NetworkError)))
           => Len(outbound) = 1
    /\ (Ran /\ ~execOut.ok /\ Len(outbound) = 1) =>
           outbound[1] = fetchArguments(
                             operationEndpoint(Operation(call), Arguments(call)),
                             getAuthHeaders(call.credentials).value)

C6_Witness ==
    /\ Answered /\ resp.status = 429
    /\ ~execOut.ok /\ execOut.error.retryable
    /\ Len(outbound) = 1

ListOperations == CursorLists \cup PlainLists \cup OffsetLists
\* The operation of an invocation that went to the executor is one of ops.
RanOneOf(ops) == Ran /\ Operation(call) \in ops
\* The data a tool returned in a success envelope.
ToolReturned(tool) ==
    /\ pc = "settled" /\ call.layer = "tool" /\ call.name = tool
    /\ envelope.isError = Undefined
EnvelopeData == envelope.content[1].text.doc
CountMatchesItems(page) ==
    /\ IsArray(Get(page, "items"))
    /\ Get(page, "count") = Num(Len(Get(page, "items").elems))

\* C7: every page a list operation returns has count equal to the number
\* of its items, also when the upstream body carries no result array (no
\* items, count 0); so has the page a list tool puts in its envelope.
C7_CountIsNumberOfItems ==
    /\ (RanOneOf(ListOperations) /\ opOut.ok) => CountMatchesItems(opOut.value)
    /\ (\E tool \in ListTools : ToolReturned(tool)) => CountMatchesItems(EnvelopeData)

C7_Witness ==
    /\ RanOneOf({"listSegments"}) /\ opOut.ok
    /\ "results" \notin DOMAIN execOut.value.f
    /\ Get(opOut.value, "items") = Arr(<<>>)
    /\ Get(opOut.value, "count") = Num(0)

NoToken(page) == page.t = "object" /\ "nextPageToken" \notin DOMAIN page.f
LimitInEffect ==
    IF Arguments(call).limit = Undefined THEN 500 ELSE Arguments(call).limit.n

\* C8 (amended): a page of contact lists, segments, single sends, sender
\* identities, API keys or a contact search, and the page the unsubscribe
\* groups tool returns, has hasMore = false and no nextPageToken; a page of
\* an offset/limit suppression list has no nextPageToken either, but its
\* hasMore is true exactly when the upstream returned as many entries as
\* the limit in effect (500 by default).
C8_NoCursorPages ==
    /\ (RanOneOf(PlainLists) /\ opOut.ok) =>
           Get(opOut.value, "hasMore") = Bool(FALSE) /\ NoToken(opOut.value)
    /\ (RanOneOf(OffsetLists) /\ opOut.ok) =>
           /\ NoToken(opOut.value)
           /\ Get(opOut.value, "hasMore")
                  = Bool(Len(Get(opOut.value, "items").elems) = LimitInEffect)
    /\ ToolReturned("sendgrid_list_unsubscribe_groups") =>
           Get(EnvelopeData, "hasMore") = Bool(FALSE) /\ NoToken(EnvelopeData)

C8_Witness ==
    /\ RanOneOf({"listBlocks"}) /\ opOut.ok
    /\ Arguments(call).limit = Num(2)
    /\ Len(Get(opOut.value, "items").elems) = 2
    /\ Get(opOut.value, "hasMore") = Bool(TRUE)

\* C8 as stated: every page of an operation without a continuation cursor,
\* the offset/limit suppression lists included, has hasMore = false and no
\* nextPageToken.
C8_AsStated ==
    (RanOneOf(PlainLists \cup OffsetLists) /\ opOut.ok) =>
        Get(opOut.value, "hasMore") = Bool(FALSE) /\ NoToken(opOut.value)

\* The query string of the request, read as the upstream reads it: split at
\* "&" and "=", every percent escape decoded.
DecodeToken(tok) ==
    CASE tok = "%26" -> "&"
      [] tok = "%3D" -> "="
      [] tok = "%25" -> "%"
      [] tok = "%2B" -> "+"
      [] tok = "+" -> " "
      [] OTHER -> tok
ParameterStarts(query, name) ==
    {i \in 1..Len(query) - 1 :
        /\ query[i] = name /\ query[i + 1] = "="
        /\ (i = 1 \/ query[i - 1] = "&")}
RECURSIVE UpToAmpersand(_)
UpToAmpersand(toks) ==
    IF toks = <<>> \/ Head(toks) = "&" THEN <<>>
    ELSE <<DecodeToken(Head(toks))>> \o UpToAmpersand(Tail(toks))
HasParameter(query, name) == ParameterStarts(query, name) # {}
ParameterValue(query, name) ==
    LET i == CHOOSE j \in ParameterStarts(query, name) : TRUE
    IN  UpToAmpersand(SubSeq(query, i + 2, Len(query)))

CallerPageToken ==
    IF Operation(call) = "listContacts"
    THEN OptGet(Arguments(call).params, "pageToken")
    ELSE Arguments(call).pageToken
UpstreamNext == OptGet(Get(execOut.value, "_metadata"), "next")
SentQuery == outbound[1].url.query

\* C9 (amended): for listContacts, listTemplates and listDesigns the
\* result's nextPageToken is the upstream `_metadata.next` unchanged and
\* hasMore is true exactly when that value is present and not the empty
\* string; a non-empty page token of the caller is sent as the `page_token`
\* query parameter, whose decoded value is the token, and an absent or
\* empty one sends no `page_token`.
C9_CursorPages ==
    RanOneOf(CursorLists) =>
        /\ opOut.ok =>
              /\ Get(opOut.value, "nextPageToken") = UpstreamNext
              /\ Get(opOut.value, "hasMore")
                     = Bool(UpstreamNext \notin {Undefined, Str("")})
        /\ outbound # <<>> =>
              IF CallerPageToken \in {Undefined, Chars(<<>>)}
              THEN ~HasParameter(SentQuery, "page_token")
              ELSE /\ HasParameter(SentQuery, "page_token")
                   /\ ParameterValue(SentQuery, "page_token") = CallerPageToken.cs

C9_Witness ==
    /\ RanOneOf({"listTemplates"}) /\ opOut.ok
    /\ CallerPageToken = Chars(<<"&">>)
    /\ Arguments(call).generations = Str("dynamic")
    /\ UpstreamNext = Str("tok&2")
    /\ Get(opOut.value, "hasMore") = Bool(TRUE)
    /\ Get(opOut.value, "nextPageToken") = Str("tok&2")

\* C9 as stated: nextPageToken is `_metadata.next`, hasMore is true if and
\* only if that token is present, and a page token the caller supplies is
\* forwarded as `page_token`.
C9_AsStated ==
    RanOneOf(CursorLists) =>
        /\ opOut.ok =>
              /\ Get(opOut.value, "nextPageToken") = UpstreamNext
              /\ Get(opOut.value, "hasMore") = Bool(UpstreamNext # Undefined)
        /\ (outbound # <<>> /\ CallerPageToken # Undefined) =>
              /\ HasParameter(SentQuery, "page_token")
              /\ ParameterValue(SentQuery, "page_token") = CallerPageToken.cs

\* A bulk delete tool has been invoked with no identifier/email set and
\* without a true delete-all flag.
BulkDeleteWithoutTarget ==
    /\ call.layer = "tool" /\ call.name \in BulkDeleteTools
    /\ (IF call.name = "sendgrid_delete_contacts" THEN call.args.ids
        ELSE call.args.emails) = Undefined
    /\ call.args.deleteAll \in {Undefined, Bool(FALSE)}
ValidationMessages ==
    {Str("Either ids or deleteAll must be provided"),
     Str("Either emails or deleteAll must be provided"),
     Str("Either emails or deleteAll required")}

\* C10: a bulk delete tool invoked with neither an identifier/email set
\* nor a true delete-all flag returns at once an error envelope
\* (isError = true) with a local validation message; the client is not
\* called and no HTTP request is issued.
C10_BulkDeleteNeedsTarget ==
    (pc # "idle" /\ BulkDeleteWithoutTarget) =>
        /\ pc = "settled"
        /\ envelope.isError = Bool(TRUE)
        /\ Get(EnvelopeData, "error") \in ValidationMessages
        /\ DOMAIN EnvelopeData.f = {"error"}
        /\ outbound = <<>>
        /\ ~Ended(execOut) /\ ~Ended(opOut)

C10_Witness ==
    /\ pc = "settled" /\ BulkDeleteWithoutTarget
    /\ call.name = "sendgrid_delete_spam_reports"
    /\ call.args.deleteAll = Bool(FALSE)
    /\ envelope.isError = Bool(TRUE) /\ outbound = <<>>

\* The upstream has answered the lookup with an entry for the email asked.
LookupHit ==
    /\ execOut.ok /\ ~Nullish(execOut.value)
    /\ Truthy(OptGet(Get(execOut.value, "result"), Arguments(call).email.s))

\* C11: getContactByEmail returns null whenever the executor raised an
\* error or the success body has no entry for the email, and never throws;
\* the tool then returns an envelope without isError whose data has
\* found = false.
C11_LookupNotFound ==
    RanOneOf({"getContactByEmail"}) =>
        /\ opOut.ok
        /\ ~LookupHit =>
              /\ opOut = Return(Null)
              /\ call.layer = "tool" =>
                    /\ envelope.isError = Undefined
                    /\ Get(EnvelopeData, "found") = Bool(FALSE)
        /\ LookupHit => opOut = Return(execOut.value.f["result"].f["a@x.io"])

C11_Witness ==
    /\ RanOneOf({"getContactByEmail"}) /\ call.layer = "tool"
    /\ resp.arrived /\ resp.status = 404
    /\ ~execOut.ok /\ execOut.error.cls = "SendGridApiError"
    /\ opOut = Return(Null)
    /\ Get(EnvelopeData, "found") = Bool(FALSE)

\* The executor has raised one of the three classified errors.
ClassifiedFailure == Ran /\ ~execOut.ok /\ execOut.error.cls \in ClassifiedErrors

\* C12 as stated: in every operation other than getContactByEmail a
\* classified error raised by the executor is the operation's own outcome,
\* and a tool returns the error envelope of that error.
C12_ClassifiedErrorsPropagate ==
    (ClassifiedFailure /\ Operation(call) # "getContactByEmail") =>
        /\ opOut = execOut
        /\ call.layer = "tool" => envelope = formatError(execOut.error)

\* Every property name of a JSON value, at every nesting level.
RECURSIVE KeysOf(_)
KeysOf(v) ==
    CASE v.t = "object" -> DOMAIN v.f \cup UNION {KeysOf(v.f[k]) : k \in DOMAIN v.f}
      [] v.t = "array" -> UNION {KeysOf(v.elems[i]) : i \in 1..Len(v.elems)}
      [] OTHER -> {}
\* The camel-style names of the typed inputs and results.
CamelStyleNames ==
    {"templateId", "replyTo", "sendAt", "dynamicTemplateData", "emailConfig",
     "htmlContent", "plainContent", "generatePlainContent", "testData",
     "fieldType", "queryDsl", "parentListIds", "fromName", "apiKey", "apiKeyId",
     "contactCount", "billableCount", "firstName", "jobId", "messageId"}
SentBody == outbound[1].body

\* C13 as stated: no field name of an outbound JSON body is camel-style; each
\* camel-style input field has been renamed to snake_case, at every level.
C13_OutboundNamesSnakeCase ==
    (outbound # <<>> /\ SentBody # Undefined) =>
        KeysOf(SentBody.doc) \cap CamelStyleNames = {}

\* The snake_case names of the upstream's JSON.
SnakeStyleNames ==
    {"first_name", "contact_count", "billable_count", "api_key", "api_key_id",
     "updated_at", "job_id", "query_dsl", "parent_list_ids", "html_content",
     "plain_content", "generate_plain_content", "test_data", "send_at",
     "email_config", "template_id"}

\* C14 as stated: no snake_case field name of the upstream response is in the
\* result an operation hands to its caller, at any nesting level.
C14_ResultNamesCamelStyle ==
    (Ran /\ opOut.ok) => KeysOf(opOut.value) \cap SnakeStyleNames = {}

\* The upstream has answered a create with the very values it was sent,
\* under its own names.
EchoedCreate == Ran /\ opOut.ok /\ resp.arrived /\ resp.text = SentBody

\* C15 as stated: when the upstream answers a create with the field values
\* of the outbound payload under the upstream names, the result has every
\* field of the typed input with the input's value.
C15_RoundTrip ==
    (RanOneOf({"createSegment"}) /\ EchoedCreate) =>
        \A k \in DOMAIN Arguments(call).input.f :
            Arguments(call).input.f[k] # Undefined =>
                Get(opOut.value, k) = Arguments(call).input.f[k]

\* C16 as stated: when the upstream answers a create-API-key call with the
\* new key, the success envelope of that invocation carries the full key
\* value unchanged.
C16_SecretDisclosedOnce ==
    (ToolReturned("sendgrid_create_api_key") /\ execOut.ok
        /\ ~Nullish(execOut.value) /\ Truthy(Get(execOut.value, "api_key"))) =>
        Get(EnvelopeData, "apiKey") = Get(execOut.value, "api_key")

\* Every <<name, value>> of a property of a JSON value, at every level.
RECURSIVE FieldsOf(_)
FieldsOf(v) ==
    CASE v.t = "object" ->
           {<<k, v.f[k]>> : k \in DOMAIN v.f} \cup UNION {FieldsOf(v.f[k]) : k \in DOMAIN v.f}
      [] v.t = "array" -> UNION {FieldsOf(v.elems[i]) : i \in 1..Len(v.elems)}
      [] OTHER -> {}
TemplateVersionWrites == {"createTemplateVersion", "updateTemplateVersion"}
HasSentBody == pc # "idle" /\ outbound # <<>> /\ SentBody # Undefined
GivenInput(k) == Get(Arguments(call).input, k)

\* C17: createTemplateVersion and updateTemplateVersion send `active` as 1
\* for the input flag true and as 0 for false, and send the boolean
\* generatePlainContent as the boolean it is; no other operation sends a
\* 1 or a 0 for a boolean: `active` of these two operations is the only
\* outbound field with such a value, and delete_all is sent as true.
C17_ActiveIsOneOrZero ==
    HasSentBody =>
        /\ Operation(call) \in TemplateVersionWrites =>
              /\ GivenInput("active") = Bool(TRUE) => Get(SentBody.doc, "active") = Num(1)
              /\ GivenInput("active") = Bool(FALSE) => Get(SentBody.doc, "active") = Num(0)
              /\ GivenInput("generatePlainContent") # Undefined =>
                    Get(SentBody.doc, "generate_plain_content")
                        = GivenInput("generatePlainContent")
        /\ \A kv \in FieldsOf(SentBody.doc) :
              /\ kv[2] \in {Num(0), Num(1)} =>
                    kv[1] = "active" /\ Operation(call) \in TemplateVersionWrites
              /\ kv[1] = "delete_all" => kv[2] = Bool(TRUE)

C17_Witness ==
    /\ RanOneOf({"updateTemplateVersion"}) /\ HasSentBody
    /\ GivenInput("active") = Bool(FALSE)
    /\ GivenInput("generatePlainContent") = Bool(FALSE)
    /\ Get(SentBody.doc, "active") = Num(0)
    /\ Get(SentBody.doc, "generate_plain_content") = Bool(FALSE)

\* The outbound name of a field of a typed input.
OutboundName(k) ==
    CASE k = "htmlContent" -> "html_content"
      [] k = "plainContent" -> "plain_content"
      [] k = "generatePlainContent" -> "generate_plain_content"
      [] k = "testData" -> "test_data"
      [] k = "queryDsl" -> "query_dsl"
      [] k = "parentListIds" -> "parent_list_ids"
      [] OTHER -> k

\* C18 as stated: an optional field absent from the typed input is absent
\* from the outbound body (nor is any field sent as null or as an empty
\* string); validating an email without a source sends only the email.
C18_AbsentStaysAbsent ==
    HasSentBody =>
        /\ \A kv \in FieldsOf(SentBody.doc) : kv[2] \notin {Null, Str("")}
        /\ Operation(call) \in TemplateVersionWrites \cup {"createSegment"} =>
              \A k \in DOMAIN Arguments(call).input.f :
                  GivenInput(k) = Undefined =>
                      OutboundName(k) \notin DOMAIN SentBody.doc.f
        /\ (Operation(call) = "validateEmail" /\ Arguments(call).source = Undefined) =>
              SentBody.doc = Obj("email" :> Arguments(call).email)

SendEmailInvoked ==
    pc # "idle" /\ call.layer = "tool" /\ call.name = "sendgrid_send_email"
Given(v) == v \notin {Undefined, Str("")}
PlainEntry == Obj(("type" :> Str("text/plain")) @@ ("value" :> call.args.text))
HtmlEntry == Obj(("type" :> Str("text/html")) @@ ("value" :> call.args.html))

\* C19: a send-email invocation makes exactly one outbound call, POST
\* /mail/send, whose payload has exactly one personalization, whose `to`
\* holds one {email} object per recipient in the order given; its content
\* is the one entry {type: "text/plain", value: text} when a (non-empty)
\* text alone is given, that entry followed by the text/html entry when
\* html is given too, and the content field is left out when neither is
\* given.
C19_SendEmailPayload ==
    SendEmailInvoked =>
        /\ Len(outbound) = 1
        /\ outbound[1].method = "POST" /\ outbound[1].url.path = "/mail/send"
        /\ outbound[1].url.query = <<>>
        /\ LET payload == SentBody.doc
               personalizations == Get(payload, "personalizations")
               to == Get(personalizations.elems[1], "to")
           IN  /\ IsArray(personalizations) /\ Len(personalizations.elems) = 1
               /\ IsArray(to) /\ Len(to.elems) = Len(call.args.to.elems)
               /\ \A i \in 1..Len(to.elems) :
                     to.elems[i] = Obj("email" :> call.args.to.elems[i])
               /\ (Given(call.args.text) /\ ~Given(call.args.html)) =>
                     Get(payload, "content") = Arr(<<PlainEntry>>)
               /\ (Given(call.args.text) /\ Given(call.args.html)) =>
                     Get(payload, "content") = Arr(<<PlainEntry, HtmlEntry>>)
               /\ (~Given(call.args.text) /\ ~Given(call.args.html)) =>
                     "content" \notin DOMAIN payload.f

C19_Witness ==
    /\ SendEmailInvoked /\ pc = "settled" /\ resp.arrived /\ resp.status = 202
    /\ Len(call.args.to.elems) = 2
    /\ call.args.text = Str("Body") /\ Given(call.args.html)
    /\ Get(SentBody.doc, "content") = Arr(<<PlainEntry, HtmlEntry>>)
    /\ envelope.isError = Undefined

\* C20: a suppression bulk delete with deleteAll = true sends exactly one
\* DELETE request whose body is exactly {delete_all: true}, whatever
\* emails are supplied with it; with deleteAll false (or not given) the
\* body is exactly {emails: <the list supplied>}.
C20_DeleteAllBody ==
    (pc # "idle" /\ outbound # <<>> /\ Operation(call) \in SuppressionDeletes) =>
        /\ Len(outbound) = 1
        /\ outbound[1].method = "DELETE"
        /\ outbound[1].url.query = <<>>
        /\ SentBody.doc =
              IF Arguments(call).deleteAll = Bool(TRUE)
              THEN Obj("delete_all" :> Bool(TRUE))
              ELSE Obj("emails" :> Arguments(call).emails)

C20_Witness ==
    /\ RanOneOf({"deleteSpamReports"}) /\ outbound # <<>>
    /\ Arguments(call).deleteAll = Bool(TRUE)
    /\ Len(Arguments(call).emails.elems) = 2
    /\ SentBody.doc = Obj("delete_all" :> Bool(TRUE))
    /\ outbound[1].url.path = "/suppression/spam_reports"

\* A tool's operation has ended with an error, which its handler caught.
ToolCaught ==
    pc = "settled" /\ call.layer = "tool" /\ Ended(opOut) /\ ~opOut.ok
Annotation(error) == IF error.cls = "RateLimitError" THEN " (retryable)" ELSE ""

\* C21: the error formatter turns every error into an envelope with
\* isError = true whose text holds "Error: " and the error's message,
\* followed by " (retryable)" if and only if the error is a RateLimitError.
C21_ErrorEnvelope ==
    ToolCaught =>
        /\ envelope.isError = Bool(TRUE)
        /\ Len(envelope.content) = 1 /\ envelope.content[1].type = "text"
        /\ Get(EnvelopeData, "error") =
              Str("Error: " \o String(opOut.error.message).s
                  \o Annotation(opOut.error))

C21_Witness ==
    /\ ToolCaught /\ opOut.error.cls = "RateLimitError"
    /\ Get(EnvelopeData, "error") =
          Str("Error: Rate limit exceeded (retryable)")

\* A tool invocation has returned its envelope.
ToolSettled == pc = "settled" /\ call.layer = "tool"
\* The handler refused the arguments before calling the client.
RejectedLocally == toolCall(call.name, call.args).reject
\* The upstream call raised a classified error.
UpstreamRaised ==
    Ended(execOut) /\ ~execOut.ok /\ execOut.error.cls \in ClassifiedErrors
\* Nothing was raised on the way: not by the executor, not by the
\* operation, not by the handler reading the operation's result (a
\* property read of undefined or null, caught by the handler itself).
NothingRaised ==
    /\ ~RejectedLocally
    /\ Ended(execOut) /\ execOut.ok
    /\ Ended(opOut) /\ opOut.ok
    /\ envelope # formatError(TypeError)

\* C22: every tool returns a content envelope whose isError flag is set
\* if and only if the invocation failed: set after a local validation
\* error or a classified error of the upstream call, not set when nothing
\* was raised.
C22_IsErrorIffFailed ==
    ToolSettled =>
        /\ Len(envelope.content) = 1 /\ envelope.content[1].type = "text"
        /\ (RejectedLocally \/ UpstreamRaised) => envelope.isError = Bool(TRUE)
        /\ NothingRaised => envelope.isError = Undefined

ValidationTools == {"sendgrid_validate_domain", "sendgrid_validate_branded_link",
                    "sendgrid_validate_email", "sendgrid_validate_batch_id"}
\* The upstream answered 2xx with a document; Answer is that document.
AnsweredDocument ==
    Answered /\ ResponseOk(resp.status) /\ resp.text # Unread
    /\ resp.text.kind = "json" /\ resp.text.doc.t = "object"
Answer == resp.text.doc
DnsVerdictFailed ==
    /\ call.name \in {"sendgrid_validate_domain", "sendgrid_validate_branded_link"}
    /\ AnsweredDocument /\ Get(Answer, "valid") = Bool(FALSE)
EmailVerdictFailed ==
    /\ call.name = "sendgrid_validate_email"
    /\ AnsweredDocument /\ Get(Answer, "verdict") = Str("Invalid")

\* C24: for the validation tools (domain, branded link, email, batch id) an
\* upstream answer meaning "did not validate" yields a non-error envelope
\* that reports the failed verdict with its diagnostic detail, and a
\* classified error of the upstream call yields the error envelope of that
\* error, never a failed validation.
C24_ValidationVerdicts ==
    (ToolSettled /\ call.name \in ValidationTools) =>
        /\ DnsVerdictFailed =>
              /\ envelope.isError = Undefined
              /\ Get(EnvelopeData, "success") = Bool(FALSE)
              /\ Get(EnvelopeData, "valid") = Bool(FALSE)
              /\ Get(EnvelopeData, "validationResults") =
                    Get(Answer, "validation_results")
        /\ EmailVerdictFailed =>
              /\ envelope.isError = Undefined
              /\ Get(EnvelopeData, "verdict") = Str("Invalid")
              /\ Get(EnvelopeData, "score") = Get(Answer, "score")
              /\ Get(EnvelopeData, "checks") = Get(Answer, "checks")
        /\ UpstreamRaised => envelope = formatError(execOut.error)

\* x and y agree field for field (an absent field reads as undefined).
RECURSIVE FieldForField(_, _)
FieldForField(x, y) ==
    IF x.t = "object" /\ y.t = "object"
    THEN \A k \in DOMAIN x.f \cup DOMAIN y.f : FieldForField(Get(x, k), Get(y, k))
    ELSE IF x.t = "array" /\ y.t = "array"
    THEN /\ Len(x.elems) = Len(y.elems)
         /\ \A i \in 1..Len(x.elems) : FieldForField(x.elems[i], y.elems[i])
    ELSE x = y

\* A tool that hands its operation's result to formatResponse has returned.
Formatted(format) ==
    /\ ToolSettled /\ Ended(opOut) /\ opOut.ok
    /\ call.name \in {"sendgrid_list_contacts", "sendgrid_list_bounces",
                      "sendgrid_list_segments"}
    /\ call.args.format = format
EnvelopeText == envelope.content[1].text
Present(v) == ~Nullish(v)

\* C23: formatting never alters the result: in json format the envelope
\* text parses back to a value equal to the result field for field, and in
\* markdown format every cell of the segments table shows the item's
\* field value whenever the item has one (0 included).
C23_FormattingKeepsValues ==
    /\ Formatted("json") =>
          /\ JSONparse(EnvelopeText).ok
          /\ FieldForField(JSONparse(EnvelopeText).value, opOut.value)
    /\ (Formatted("markdown") /\ call.name = "sendgrid_list_segments") =>
          LET items == Get(opOut.value, "items").elems
              rows == EnvelopeText.table.rows
              Shows(cell, v) == Present(v) => cell = String(v).s
          IN  /\ EnvelopeText.showing = String(Get(opOut.value, "count")).s
              /\ items # <<>> =>
                    /\ Len(rows) = Len(items)
                    /\ \A i \in 1..Len(items) :
                          /\ Shows(rows[i][1], Get(items[i], "id"))
                          /\ Shows(rows[i][2], Get(items[i], "name"))
                          /\ Shows(rows[i][3], Get(items[i], "contactsCount"))

\* The number of entries the upstream returned (none for a body that is no
\* array), and the offset in effect.
UpstreamCount ==
    IF IsArray(execOut.value) THEN Len(execOut.value.elems) ELSE -1
OffsetInEffect ==
    IF Arguments(call).offset = Undefined THEN 0 ELSE Arguments(call).offset.n

\* C27: an offset/limit list (bounces, blocks, spam reports, invalid
\* emails, global unsubscribes) always sends `limit` (500 by default) and
\* `offset` (0 by default) in its one request; its page has hasMore = true
\* if and only if the upstream returned exactly `limit` entries, and never
\* a nextPageToken.
C27_FullPageHeuristic ==
    (pc # "idle" /\ outbound # <<>> /\ Operation(call) \in OffsetLists) =>
        /\ Len(outbound) = 1
        /\ HasParameter(SentQuery, "limit") /\ HasParameter(SentQuery, "offset")
        /\ ParameterValue(SentQuery, "limit") = <<ToString(LimitInEffect)>>
        /\ ParameterValue(SentQuery, "offset") = <<ToString(OffsetInEffect)>>
        /\ (pc = "settled" /\ opOut.ok) =>
              /\ Get(opOut.value, "hasMore") = Bool(UpstreamCount = LimitInEffect)
              /\ NoToken(opOut.value)

C27_Witness ==
    /\ RanOneOf({"listGlobalSuppressions"}) /\ opOut.ok
    /\ Arguments(call).limit = Undefined
    /\ ParameterValue(SentQuery, "limit") = <<"500">>
    /\ ParameterValue(SentQuery, "offset") = <<"0">>
    /\ UpstreamCount = 2
    /\ Get(opOut.value, "hasMore") = Bool(FALSE)

\* The DELETE request names a target: the delete-all flag set to true, or
\* a non-empty set of identifiers (query) or emails (body).
RequestHasTarget(request) ==
    IF request.url.path = "/marketing/contacts"
    THEN \/ /\ HasParameter(request.url.query, "delete_all_contacts")
            /\ ParameterValue(request.url.query, "delete_all_contacts") = <<"true">>
         \/ /\ HasParameter(request.url.query, "ids")
            /\ ParameterValue(request.url.query, "ids") \notin {<<>>, <<"">>}
    ELSE \/ Get(request.body.doc, "delete_all") = Bool(TRUE)
         \/ /\ IsArray(Get(request.body.doc, "emails"))
            /\ Get(request.body.doc, "emails").elems # <<>>

\* C28: every DELETE request a bulk delete tool issues carries the
\* delete-all flag set to true or a non-empty identifier/email set, also
\* when the caller passes an empty list and no delete-all flag.
C28_NoUntargetedDelete ==
    (call.layer = "tool" /\ call.name \in BulkDeleteTools) =>
        \A i \in 1..Len(outbound) :
            outbound[i].method = "DELETE" /\ RequestHasTarget(outbound[i])

\* A request to the MCP endpoint that the Worker has taken up.
McpRequest(i) == slots[i].pc # "idle" /\ slots[i].route = "/mcp"
\* The request of slot i came with a usable API key and got a tool reply.
ToolAnswered(i) ==
    McpRequest(i) /\ slots[i].pc = "answered" /\ slots[i].client.created
\* How the executor ends on the upstream response u (or its failure).
ExecutorOutcome(u) ==
    IF ~u.arrived THEN Throw(NetworkError)
    ELSE LET head == [u EXCEPT !.text = Unread]
             step == request_onResponse(head)
         IN  IF step.await THEN request_onText(head, u.text) ELSE step.out
\* The reply to slot i as its own call and its own upstream response give it.
OwnReply(i) ==
    LET tc == toolCall(slots[i].call.name, slots[i].call.args)
    IN  IF tc.reject THEN tc.envelope
        ELSE toolReturn(slots[i].call.name, slots[i].call.args,
                        operationResult(tc.op, tc.a,
                                        ExecutorOutcome(slots[i].upstream)))
CredentialIsolation ==
    \A i \in Requests :
        /\ Len(slots[i].outbound) <= 1
        /\ \A k \in 1..Len(slots[i].outbound) :
              slots[i].outbound[k].headers.Authorization
                  = "Bearer " \o slots[i].header.s
        /\ ToolAnswered(i) => slots[i].reply = ToolReply(OwnReply(i))
\* A step of one request changes nothing of any other request.
StepsAreLocal ==
    \A i, j \in Requests :
        (i # j /\ slots'[i] # slots[i]) => slots'[j] = slots[j]

\* C25: under every interleaving of concurrent requests, each outbound
\* request carries in its Authorization header the credential that came
\* with the request that issued it, the envelope returned to a request is
\* built from its own call and its own upstream response, and a step of
\* one request changes no state of another.
C25_InvocationsIndependent == [](CredentialIsolation) /\ [][StepsAreLocal]_vars

C25_Witness ==
    /\ slots[1].pc = "fetching" /\ slots[1].header = Str("SG.a")
    /\ slots[1].outbound[1].headers.Authorization = "Bearer SG.a"
    /\ ToolAnswered(2) /\ slots[2].header = Str("SG.b")
    /\ slots[2].upstream.arrived /\ slots[2].upstream.status = 200
    /\ slots[2].outbound[1].headers.Authorization = "Bearer SG.b"
    /\ slots[2].reply.envelope.isError = Undefined

RECURSIVE StringsOf(_)
StringsOf(v) ==
    CASE v.t = "object" -> UNION {StringsOf(v.f[k]) : k \in DOMAIN v.f}
      [] v.t = "array" -> UNION {StringsOf(v.elems[i]) : i \in 1..Len(v.elems)}
      [] v.t = "string" -> {v.s}
      [] OTHER -> {}
ReplyStrings(i) ==
    UNION {StringsOf(slots[i].reply.envelope.content[k].text.doc) :
              k \in 1..Len(slots[i].reply.envelope.content)}

\* C26: two requests that differ only in the API key and receive the same
\* upstream response get the same envelope, success or error, details
\* included; no string of an envelope is the caller's API key.
C26_CredentialNeverEchoed ==
    /\ \A i, j \in Requests :
          (/\ ToolAnswered(i) /\ ToolAnswered(j)
           /\ slots[i].call = slots[j].call
           /\ slots[i].upstream = slots[j].upstream) =>
              slots[i].reply = slots[j].reply
    /\ \A i \in Requests :
          ToolAnswered(i) => slots[i].header.s \notin ReplyStrings(i)

C26_Witness ==
    /\ ToolAnswered(1) /\ ToolAnswered(2)
    /\ slots[1].header = Str("SG.a") /\ slots[2].header = Str("SG.b")
    /\ slots[1].call = slots[2].call
    /\ slots[1].call.name = "sendgrid_create_api_key"
    /\ slots[1].upstream = slots[2].upstream
    /\ slots[1].upstream.arrived /\ slots[1].upstream.status = 401
    /\ slots[1].reply = slots[2].reply
    /\ slots[1].reply.envelope.isError = Bool(TRUE)

\* C29: a POST /mcp without the X-SendGrid-API-Key header, or with an empty
\* one, is answered with HTTP 401 before any server or client is created:
\* no tool handler runs and no upstream request is issued for it; a client
\* is only ever constructed with a non-empty API key.
C29_MissingKeyIs401 ==
    \A i \in Requests :
        /\ (McpRequest(i) /\ slots[i].header \in {Null, Str("")}) =>
              /\ slots[i].pc = "answered"
              /\ slots[i].reply.status = 401
              /\ ~slots[i].client.created
              /\ slots[i].call = NoCall
              /\ slots[i].outbound = <<>>
        /\ slots[i].client.created =>
              /\ slots[i].client.credentials.apiKey.t = "string"
              /\ slots[i].client.credentials.apiKey.s # ""

C29_Witness ==
    /\ McpRequest(1) /\ slots[1].header = Str("")
    /\ slots[1].reply.status = 401 /\ ~slots[1].client.created
    /\ Get(slots[1].reply.body.doc, "error") = Str("Unauthorized")
    /\ slots[2].pc = "fetching" /\ slots[2].client.created

ToolInvoked == call.layer = "tool" /\ pc # "idle"
\* The handler has returned one envelope: one text block, flagged or not.
OneEnvelope ==
    /\ envelope # NoEnvelope
    /\ Len(envelope.content) = 1 /\ envelope.content[1].type = "text"
    /\ envelope.isError \in {Undefined, Bool(TRUE)}
\* An envelope, once returned, is the invocation's only one.
EnvelopeIsFinal ==
    envelope # NoEnvelope => (envelope' = envelope \/ pc' = "idle")

\* C30: every tool invocation terminates with exactly one envelope: if
\* each upstream call eventually returns a response or fails, the handler
\* eventually returns a single success or error envelope; whatever the
\* client or the executor raises is caught and returned as an envelope.
C30_OneEnvelopeEventually ==
    /\ [](ToolSettled <=> (ToolInvoked /\ OneEnvelope))
    /\ [][EnvelopeIsFinal]_vars
    /\ (ToolInvoked ~> (ToolSettled /\ OneEnvelope))

C30_Witness ==
    /\ ToolSettled /\ call.name = "sendgrid_send_email"
    /\ execOut = Throw(NetworkError)
    /\ OneEnvelope /\ envelope = formatError(NetworkError)

====
